---- MODULE Spec2Model ----
(***************************************************************************)
(* A model of the AdjacencyList storage engine: two flat word buffers      *)
(* (NodeTypeMap, EdgeTypeMap) holding hash buckets, collision chains and   *)
(* the intrusive in/out edge lists, and the orchestrating AdjacencyList.   *)
(* Buffers are modelled word for word; addresses are word offsets and 0 is *)
(* the null address, as in the source.                                     *)
(***************************************************************************)
EXTENDS Integers, Sequences, FiniteSets, TLC

(***************************************************************************)
(* Bounds of the model.                                                    *)
(***************************************************************************)
\* addNode is called at most MaxNodes times
MaxNodes == 2
\* edge types used by the operations are 1..MaxType
MaxType == 2
\* number of public operations in one behaviour
MaxOps == 6
\* resizeEdges is called with sizes 0..MaxResize
MaxResize == 2
\* the wildcard scenario calls addNode at most MaxScenarioNodes times
MaxScenarioNodes == 5

\* the churn gives the edge map a capacity of 2..MaxChurnCapacity and then
\* makes at most MaxChurnOps successful addEdge and removeEdge calls
MaxChurnCapacity == 3

MaxChurnOps == 7
MaxRebuildTail == 2
MaxUnmintedId == 6
MaxUnmintedOps == 3
MaxPolicyCapacity == 40
MaxExactCapacity == 18917
MaxHashCapacity == 13
MaxHashKey == 4
GrowthSequence == <<2, 16, 128, 1024>>

\* the lists of the three element widths get at most MaxWidthOps calls, and
\* resizeEdges a size of 0..MaxResize or MaxWidthResize
MaxWidthOps == 4

MaxWidthResize == 253

\* addEdge is also called with the MaxBadTypes types 1 - MaxBadTypes .. 0
MaxBadTypes == 2

\* number of operations of the holders of shared buffers in one behaviour
MaxSharedOps == 5

\* a buffer given to deserialize is up to MaxDamage words shorter or longer
\* than the serialized one, or as long as a map of capacity 0..MaxDamage,
\* and its capacity word is the serialized one or 0..MaxDamage
MaxDamage == 2

\* and deserialize is called among the first MaxDamagedOps operations
MaxDamagedOps == 4

\* a Graph gets at most MaxGraphNodes nodes, with the values
\* 0..MaxNodeValue, and at most MaxGraphOps other calls
MaxGraphNodes == 3

MaxNodeValue == 1

MaxGraphOps == 3

\* a list is constructed with a node capacity of 1..MaxNodeCapacity, gets at
\* most MaxCapacityNodes nodes and at most MaxCapacityOps other calls
MaxNodeCapacity == 3

MaxCapacityNodes == 6

MaxCapacityOps == 2

(***************************************************************************)
(* Program constants.  The load factors are kept as tenths, so that        *)
(* count / (capacity * BUCKET_SIZE) > 0.7 is the integer comparison        *)
(* 10 * count > 7 * capacity * BUCKET_SIZE.                                *)
(***************************************************************************)
LOAD_FACTOR_TENTHS == 7
TENTHS == 10
UNLOAD_FACTOR_TENTHS == 3
MAX_GROW_FACTOR == 8
MIN_GROW_FACTOR == 2
BUCKET_SIZE == 2
HEADER_SIZE == 3
CAPACITY == 0
COUNT == 1
NEXT_ID == 2
DELETES == 2
NEXT == 0
TYPE == 1
NODE_ITEM_SIZE == 6
FIRST_IN == 2
FIRST_OUT == 3
LAST_IN == 4
LAST_OUT == 5
EDGE_ITEM_SIZE == 8
FROM == 2
TO == 3
NEXT_IN == 4
PREV_IN == 5
NEXT_OUT == 6
PREV_OUT == 7
MIN_CAPACITY == 2
NODE_MAX_CAPACITY == 178956970
EDGE_MAX_CAPACITY == 134217727
PEAK_CAPACITY == 262144
AllEdgeTypes == -1
NullEdgeType == 1
Uint32 == 32

\* the value of a NaN hash (hash % 0); no real hash has this value
NaN == 0 - 2000000000

(***************************************************************************)
(* 32-bit integer arithmetic of hash32shift.  A 32-bit word is the pair    *)
(* <<hi, lo>> of its 16-bit halves.                                        *)
(***************************************************************************)
Half == 256 * 256

RECURSIVE Pow2(_)
Pow2(n) == IF n = 0 THEN 1 ELSE 2 * Pow2(n - 1)

RECURSIVE XorBits(_, _, _)
XorBits(a, b, n) ==
  IF n = 0 THEN 0
  ELSE ((a + b) % 2) + 2 * XorBits(a \div 2, b \div 2, n - 1)

Xor32(x, y) == <<XorBits(x[1], y[1], 16), XorBits(x[2], y[2], 16)>>

Not32(x) == <<Half - 1 - x[1], Half - 1 - x[2]>>

Add32(x, y) ==
  LET lo == x[2] + y[2]
  IN  <<(x[1] + y[1] + lo \div Half) % Half, lo % Half>>

\* x << n, for 0 < n < 16
Shl32(x, n) ==
  LET lo == x[2] * Pow2(n)
  IN  <<((x[1] % Pow2(16 - n)) * Pow2(n) + lo \div Half) % Half, lo % Half>>

\* x >> n (sign-propagating), for 0 < n <= 16
Sar32(x, n) ==
  LET fill == IF x[1] >= Half \div 2 THEN (Pow2(n) - 1) * Pow2(16 - n) ELSE 0
  IN  IF n = 16 THEN <<fill, x[1]>>
      ELSE <<fill + x[1] \div Pow2(n),
             (x[1] % Pow2(n)) * Pow2(16 - n) + x[2] \div Pow2(n)>>

Mul32(x, k) ==
  LET lo == x[2] * k
  IN  <<(x[1] * k + lo \div Half) % Half, lo % Half>>

\* ToInt32 of a non-negative key below 2^31
Word32(key) == <<key \div Half, key % Half>>

\* the six assignments of hash32shift
mixStep1(k) == Add32(Not32(k), Shl32(k, 15))
mixStep2(k) == Xor32(k, Sar32(k, 12))
mixStep3(k) == Add32(k, Shl32(k, 2))
mixStep4(k) == Xor32(k, Sar32(k, 4))
mixStep5(k) == Mul32(k, 2057)
mixStep6(k) == Xor32(k, Sar32(k, 16))

hash32shift(key) ==
  mixStep6(mixStep5(mixStep4(mixStep3(mixStep2(mixStep1(Word32(key)))))))

\* hash32shift of the keys the operations use (node ids and types), computed once
MaxKey == MaxNodes + MaxScenarioNodes + MaxType + 1
hash32shiftTable == [k \in 0..MaxKey |-> hash32shift(k)]

(***************************************************************************)
(* EdgeTypeMap.hash.  The sum 17*37^3 + 37^2*mix(from) + 37*mix(to) +      *)
(* mix(type) is computed without wrapping (a JavaScript number) and then   *)
(* reduced modulo the capacity.  The last step of hash32shift clears the   *)
(* sign bit (key ^ (key >> 16) with a sign-propagating shift), so every    *)
(* mix and the sum are non-negative.  The sum is held as a * 2^16 + b.     *)
(* capacity = 0 gives NaN.                                                 *)
(***************************************************************************)
HashMod(a, b, capacity) ==
  (((a + (b \div Half)) % capacity) * (Half % capacity) + (b % Half)) % capacity

HashSum(mf, mt, my, capacity) ==
  HashMod(1369 * mf[1] + 37 * mt[1] + my[1],
          861101 + 1369 * mf[2] + 37 * mt[2] + my[2],
          capacity)

HashOf(capacity, from, to, type) ==
  IF capacity = 0 THEN NaN
  ELSE HashSum(hash32shiftTable[from], hash32shiftTable[to], hash32shiftTable[type], capacity)

(***************************************************************************)
(* Typed arrays.  An array is [w |-> bits per element, d |-> the words],   *)
(* d a function on 0..length-1.  A read outside the array is undefined,    *)
(* which every reader of the source turns into null/0; a write outside the *)
(* array is ignored; a stored value is reduced to the element width.       *)
(***************************************************************************)
Uint16 == 16

Uint8 == 8

ToWord(v, w) == IF w = Uint32 THEN v ELSE v % Pow2(w)

lengthOf(a) == Cardinality(DOMAIN a.d)

Rd(a, i) == IF i \in DOMAIN a.d THEN a.d[i] ELSE 0

Wr(a, i, v) == IF i \in DOMAIN a.d THEN [a EXCEPT !.d[i] = ToWord(v, a.w)] ELSE a

(***************************************************************************)
(* SharedTypeMap.  isz is the ITEM_SIZE of the subclass; HEADER_SIZE is 3  *)
(* in both subclasses.                                                     *)
(***************************************************************************)
getLength(capacity, isz) == capacity + HEADER_SIZE + isz * BUCKET_SIZE * capacity

NewMap(capacity, isz, w) ==
  Wr([w |-> w, d |-> [i \in 0..(getLength(capacity, isz) - 1) |-> 0]], CAPACITY, capacity)

capacityOf(a) == Rd(a, CAPACITY)

countOf(a) == Rd(a, COUNT)

addressableLimit(a) == HEADER_SIZE + capacityOf(a)

\* getLoad(count): the quotient count / (capacity * BUCKET_SIZE), kept as the
\* pair of count and capacity
getLoad(a, count) == [n |-> count, c |-> capacityOf(a)]

\* load > tenths / 10 (n / 0 is Infinity for n > 0 and NaN for n = 0)
LoadGT(load, tenths) ==
  IF load.c = 0 THEN load.n > 0
  ELSE 10 * load.n > tenths * load.c * BUCKET_SIZE

\* load < tenths / 10
LoadLT(load, tenths) ==
  IF load.c = 0 THEN FALSE
  ELSE 10 * load.n < tenths * load.c * BUCKET_SIZE

head(a, hash) == Rd(a, HEADER_SIZE + hash)

next(a, item) == Rd(a, item + NEXT)

typeOf(a, item) == Rd(a, item + TYPE)

\* the last item of the chain that starts at prev
RECURSIVE ChainTail(_, _)
ChainTail(a, prev) ==
  IF next(a, prev) = 0 THEN prev ELSE ChainTail(a, next(a, prev))

\* a link that makes the item the head of its bucket
linkAtHead(a, hash, item, prev) == Wr(a, HEADER_SIZE + hash, item)

\* link after the type is written: prev is the head of the bucket
linkAt(a, hash, item, prev) ==
  IF prev # 0 THEN Wr(a, ChainTail(a, prev) + NEXT, item)
  ELSE Wr(a, HEADER_SIZE + hash, item)

incrCount(a) == Wr(a, COUNT, Rd(a, COUNT) + 1)

linkTyped(a, hash, item) == incrCount(linkAt(a, hash, item, head(a, hash)))

link(a, hash, item, type) == linkTyped(Wr(a, item + TYPE, type), hash, item)

\* the predecessor of item on the chain from candidate (0: none); when item
\* is not on the chain, the last item of the chain
RECURSIVE ChainPrev(_, _, _, _)
ChainPrev(a, prev, candidate, item) ==
  IF candidate # 0 /\ candidate # item
  THEN ChainPrev(a, candidate, next(a, candidate), item)
  ELSE prev

\* unlinkAt that empties the bucket whenever its head is removed
unlinkAtDropsChain(a, hash, item, prev, nxt) ==
  IF prev # 0 /\ nxt # 0 THEN Wr(a, prev + NEXT, nxt)
  ELSE IF prev # 0 THEN Wr(a, prev + NEXT, 0)
  ELSE Wr(a, HEADER_SIZE + hash, 0)

\* unlink after the type is cleared and the bucket is found non-empty
unlinkAt(a, hash, item, prev, nxt) ==
  IF prev # 0 /\ nxt # 0 THEN Wr(a, prev + NEXT, nxt)
  ELSE IF prev # 0 THEN Wr(a, prev + NEXT, 0)
  ELSE IF nxt # 0 THEN Wr(a, HEADER_SIZE + hash, nxt)
  ELSE Wr(a, HEADER_SIZE + hash, 0)

\* decrCount that leaves the count as it is
decrCountKeeps(a) == a

decrCount(a) == Wr(a, COUNT, Rd(a, COUNT) - 1)

unlinkFrom(a, hash, item) ==
  IF head(a, hash) = 0 THEN a
  ELSE decrCount(Wr(unlinkAt(a, hash, item, ChainPrev(a, 0, head(a, hash), item), next(a, item)),
                    item + NEXT, 0))

unlink(a, hash, item) == unlinkFrom(Wr(a, item + TYPE, 0), hash, item)

\* forEach: the addresses of the items with a type, in buffer order
RECURSIVE forEachFrom(_, _, _, _, _)
forEachFrom(a, isz, i, cnt, acc) ==
  IF i < getLength(capacityOf(a), isz) /\ cnt < countOf(a)
  THEN IF typeOf(a, i) # 0
       THEN forEachFrom(a, isz, i + isz, cnt + 1, Append(acc, i))
       ELSE forEachFrom(a, isz, i + isz, cnt, acc)
  ELSE acc

forEach(a, isz) == forEachFrom(a, isz, addressableLimit(a), 0, <<>>)

\* [Symbol.iterator]: the addresses of the items with any non-zero word
RECURSIVE iteratorFrom(_, _, _, _, _)
iteratorFrom(a, isz, i, cnt, acc) ==
  IF i < getLength(capacityOf(a), isz) /\ cnt < countOf(a)
  THEN IF \E k \in 0..(isz - 1) : Rd(a, i + k) # 0
       THEN iteratorFrom(a, isz, i + isz, cnt + 1, Append(acc, i))
       ELSE iteratorFrom(a, isz, i + isz, cnt, acc)
  ELSE acc

iterator(a, isz) == iteratorFrom(a, isz, addressableLimit(a), 0, <<>>)

(***************************************************************************)
(* set(data): copy the smaller map `src` into the map `a`, shifting every  *)
(* bucket head and every next link by the difference of the capacities.    *)
(* The result is "throw" when the assertion delta >= 0 fails.              *)
(***************************************************************************)
\* a copy that leaves the links where they pointed
setShiftNot(v, delta, w) == v

setShift(v, delta, w) == IF v # 0 THEN ToWord(v + delta, w) ELSE 0

\* word i of the target after set: scap is the capacity of src
setWord(a, src, isz, scap, i) ==
  IF i < COUNT THEN a.d[i]
  ELSE IF i < HEADER_SIZE THEN ToWord(src.d[i], a.w)
  ELSE IF i < HEADER_SIZE + capacityOf(a)
       THEN setShift(IF i - HEADER_SIZE < scap THEN ToWord(src.d[i], a.w) ELSE a.d[i],
                     capacityOf(a) - scap, a.w)
  ELSE IF i - capacityOf(a) + scap < lengthOf(src)
       THEN IF (i - (HEADER_SIZE + capacityOf(a))) % isz = NEXT
            THEN setShift(ToWord(src.d[i - capacityOf(a) + scap], a.w), capacityOf(a) - scap, a.w)
            ELSE ToWord(src.d[i - capacityOf(a) + scap], a.w)
       ELSE IF (i - (HEADER_SIZE + capacityOf(a))) % isz = NEXT
            THEN setShift(a.d[i], capacityOf(a) - scap, a.w)
            ELSE a.d[i]

setData(a, src, isz) ==
  IF capacityOf(a) - Rd(src, CAPACITY) < 0 THEN [ret |-> "throw", a |-> a]
  ELSE [ret |-> "ok",
        a |-> [a EXCEPT !.d = [i \in DOMAIN a.d |-> setWord(a, src, isz, Rd(src, CAPACITY), i)]]]

(***************************************************************************)
(* NodeTypeMap.                                                            *)
(***************************************************************************)
nextIdOf(a) == Rd(a, NEXT_ID)

\* getId: the id returned is the old nextId
getId(a) == Wr(a, NEXT_ID, Rd(a, NEXT_ID) + 1)

\* Math.max(nextId / capacity, count / (capacity * BUCKET_SIZE)) > tenths / 10;
\* with capacity 0 the maximum is NaN unless both quotients are infinite
NodeLoadGT(a, tenths) ==
  IF capacityOf(a) = 0 THEN nextIdOf(a) > 0 /\ countOf(a) > 0
  ELSE \/ 10 * nextIdOf(a) > tenths * capacityOf(a)
       \/ LoadGT(getLoad(a, countOf(a)), tenths)

\* the same with >=
NodeLoadGE(a, tenths) ==
  IF capacityOf(a) = 0 THEN nextIdOf(a) > 0 /\ countOf(a) > 0
  ELSE \/ 10 * nextIdOf(a) >= tenths * capacityOf(a)
       \/ 10 * countOf(a) >= tenths * capacityOf(a) * BUCKET_SIZE

NodeGetNextAddress(a) == HEADER_SIZE + capacityOf(a) + countOf(a) * NODE_ITEM_SIZE

\* add: the new record is at NodeGetNextAddress(a); "throw" on an invalid id
NodeAdd(a, node, type) ==
  IF node >= 0 /\ node < nextIdOf(a)
  THEN [ret |-> "ok", a |-> link(a, node, NodeGetNextAddress(a), type)]
  ELSE [ret |-> "throw", a |-> a]

RECURSIVE NodeAddressFrom(_, _, _)
NodeAddressFrom(a, address, type) ==
  IF address = 0 THEN 0
  ELSE IF typeOf(a, address) = type THEN address
  ELSE NodeAddressFrom(a, next(a, address), type)

NodeAddressOf(a, node, type) == NodeAddressFrom(a, head(a, node), type)

\* the loop of addressOf from address ends: it reaches null or a record of
\* the type before it comes to an address a second time
RECURSIVE NodeWalkEnds(_, _, _, _)
NodeWalkEnds(a, address, type, seen) ==
  IF address = 0 \/ typeOf(a, address) = type THEN TRUE
  ELSE IF address \in seen THEN FALSE
  ELSE NodeWalkEnds(a, next(a, address), type, seen \cup {address})

addressOfEnds(a, node, type) == NodeWalkEnds(a, head(a, node), type, {})

firstIn(a, node) == Rd(a, node + FIRST_IN)
firstOut(a, node) == Rd(a, node + FIRST_OUT)
lastIn(a, node) == Rd(a, node + LAST_IN)
lastOut(a, node) == Rd(a, node + LAST_OUT)

\* linkIn returns the previous lastIn
NodeLinkIn(a, node, edge) ==
  LET a1 == IF firstIn(a, node) = 0 THEN Wr(a, node + FIRST_IN, edge) ELSE a
  IN  Wr(a1, node + LAST_IN, edge)

NodeUnlinkIn(a, node, edge, prev, nxt) ==
  LET first == firstIn(a, node)
      last  == lastIn(a, node)
      a1    == IF last = edge THEN Wr(a, node + LAST_IN, prev) ELSE a
  IN  IF first = edge THEN Wr(a1, node + FIRST_IN, nxt) ELSE a1

\* NodeLinkOut that makes every linked edge the first of the list
NodeLinkOutAsFirst(a, node, edge) ==
  Wr(Wr(a, node + FIRST_OUT, edge), node + LAST_OUT, edge)

NodeLinkOut(a, node, edge) ==
  LET a1 == IF firstOut(a, node) = 0 THEN Wr(a, node + FIRST_OUT, edge) ELSE a
  IN  Wr(a1, node + LAST_OUT, edge)

NodeUnlinkOut(a, node, edge, prev, nxt) ==
  LET first == firstOut(a, node)
      last  == lastOut(a, node)
      a1    == IF last = edge THEN Wr(a, node + LAST_OUT, prev) ELSE a
  IN  IF first = edge THEN Wr(a1, node + FIRST_OUT, nxt) ELSE a1

(***************************************************************************)
(* EdgeTypeMap.                                                            *)
(***************************************************************************)
deletesOf(a) == Rd(a, DELETES)

\* EdgeGetNextAddress that does not count the deleted edges
EdgeGetNextAddressNoDeletes(a) == addressableLimit(a) + countOf(a) * EDGE_ITEM_SIZE

EdgeGetNextAddress(a) ==
  addressableLimit(a) + (countOf(a) + deletesOf(a)) * EDGE_ITEM_SIZE

fromOf(a, edge) == Rd(a, edge + FROM)
toOf(a, edge) == Rd(a, edge + TO)
nextIn(a, edge) == Rd(a, edge + NEXT_IN)
prevIn(a, edge) == Rd(a, edge + PREV_IN)
nextOut(a, edge) == Rd(a, edge + NEXT_OUT)
prevOut(a, edge) == Rd(a, edge + PREV_OUT)

\* add: the new edge is at EdgeGetNextAddress(a); "throw" on an invalid hash
EdgeAdd(a, hash, from, to, type) ==
  LET edge == EdgeGetNextAddress(a)
      a1   == link(a, hash, edge, type)
  IN  IF hash >= 0 /\ hash < capacityOf(a)
      THEN [ret |-> "ok", a |-> Wr(Wr(a1, edge + FROM, from), edge + TO, to)]
      ELSE [ret |-> "throw", a |-> a]

\* EdgeDelete that clears the from field only
EdgeDeleteKeepsTo(a, edge) ==
  Wr(Wr(a, edge + FROM, 0), DELETES, Rd(a, DELETES) + 1)

EdgeDelete(a, edge) ==
  LET a1 == Wr(Wr(a, edge + FROM, 0), edge + TO, 0)
  IN  Wr(a1, DELETES, Rd(a1, DELETES) + 1)

\* EdgeAddressFrom that compares from and to but not the type
RECURSIVE EdgeAddressFromAnyType(_, _, _, _, _)
EdgeAddressFromAnyType(a, address, from, to, type) ==
  IF address = 0 THEN 0
  ELSE IF fromOf(a, address) = from /\ toOf(a, address) = to THEN address
  ELSE EdgeAddressFromAnyType(a, next(a, address), from, to, type)

RECURSIVE EdgeAddressFrom(_, _, _, _, _)
EdgeAddressFrom(a, address, from, to, type) ==
  IF address = 0 THEN 0
  ELSE IF typeOf(a, address) = type /\ fromOf(a, address) = from /\ toOf(a, address) = to
       THEN address
  ELSE EdgeAddressFrom(a, next(a, address), from, to, type)

\* EdgeAddressOf that looks at the head of the bucket only
EdgeAddressOfHead(a, hash, from, to, type) ==
  IF /\ typeOf(a, head(a, hash)) = type
     /\ fromOf(a, head(a, hash)) = from
     /\ toOf(a, head(a, hash)) = to
  THEN head(a, hash)
  ELSE 0

EdgeAddressOf(a, hash, from, to, type) ==
  EdgeAddressFrom(a, head(a, hash), from, to, type)

EdgeLinkIn(a, edge, nxt) == Wr(Wr(a, edge + NEXT_IN, nxt), nxt + PREV_IN, edge)

\* EdgeUnlinkIn that leaves the links of the edge itself
EdgeUnlinkInKeepsLinks(a, edge) ==
  LET nxt  == nextIn(a, edge)
      prev == prevIn(a, edge)
  IN  IF nxt # 0 /\ prev # 0
      THEN Wr(Wr(a, prev + NEXT_IN, nxt), nxt + PREV_IN, prev)
      ELSE IF nxt # 0 THEN Wr(a, nxt + PREV_IN, 0)
      ELSE IF prev # 0 THEN Wr(a, prev + NEXT_IN, 0)
      ELSE a

EdgeUnlinkIn(a, edge) ==
  LET nxt  == nextIn(a, edge)
      prev == prevIn(a, edge)
      a1   == Wr(Wr(a, edge + NEXT_IN, 0), edge + PREV_IN, 0)
  IN  IF nxt # 0 /\ prev # 0
      THEN Wr(Wr(a1, prev + NEXT_IN, nxt), nxt + PREV_IN, prev)
      ELSE IF nxt # 0 THEN Wr(a1, nxt + PREV_IN, 0)
      ELSE IF prev # 0 THEN Wr(a1, prev + NEXT_IN, 0)
      ELSE a1

\* EdgeLinkOut that makes next lead back to the edge
EdgeLinkOutAndBack(a, edge, nxt) == Wr(Wr(a, edge + NEXT_OUT, nxt), nxt + NEXT_OUT, edge)

EdgeLinkOut(a, edge, nxt) == Wr(Wr(a, edge + NEXT_OUT, nxt), nxt + PREV_OUT, edge)

EdgeUnlinkOut(a, edge) ==
  LET nxt  == nextOut(a, edge)
      prev == prevOut(a, edge)
      a1   == Wr(Wr(a, edge + NEXT_OUT, 0), edge + PREV_OUT, 0)
  IN  IF nxt # 0 /\ prev # 0
      THEN Wr(Wr(a1, prev + NEXT_OUT, nxt), nxt + PREV_OUT, prev)
      ELSE IF nxt # 0 THEN Wr(a1, nxt + PREV_OUT, 0)
      ELSE IF prev # 0 THEN Wr(a1, prev + NEXT_OUT, 0)
      ELSE a1

\* the sum with every step reduced modulo 2^32: the word
\* ((17 * 37 + mix(from)) * 37 + mix(to)) * 37 + mix(type) of 32-bit
\* additions and multiplications, as an unsigned number modulo the capacity
WrappedHash(capacity, from, to, type) ==
  HashMod(Add32(Mul32(Add32(Mul32(Add32(Word32(17 * 37), hash32shiftTable[from]), 37),
                            hash32shiftTable[to]), 37),
                hash32shiftTable[type])[1],
          Add32(Mul32(Add32(Mul32(Add32(Word32(17 * 37), hash32shiftTable[from]), 37),
                            hash32shiftTable[to]), 37),
                hash32shiftTable[type])[2],
          capacity)

hashWrapped(a, from, to, type) == WrappedHash(capacityOf(a), from, to, type)

hash(a, from, to, type) == HashOf(capacityOf(a), from, to, type)

(***************************************************************************)
(* Capacity policy.                                                        *)
(***************************************************************************)
\* a growth by one
increaseNodeCapacityByOne(nodeCapacity) == [ret |-> "ok", v |-> nodeCapacity + 1]

increaseNodeCapacity(nodeCapacity) ==
  LET newCapacity == nodeCapacity * MIN_GROW_FACTOR
  IN  IF newCapacity <= NODE_MAX_CAPACITY
      THEN [ret |-> "ok", v |-> IF newCapacity < MIN_CAPACITY THEN MIN_CAPACITY ELSE newCapacity]
      ELSE [ret |-> "throw", v |-> 0]

\* a growth that keeps the capacity
GrowCapacityStays(capacity) == capacity

\* Math.round(capacity * interpolate(MAX_GROW_FACTOR, MIN_GROW_FACTOR,
\* capacity / PEAK_CAPACITY)), exactly: with capacity = 512 * a + b the
\* product is MAX_GROW_FACTOR * capacity - 6 * a^2 - 6 * (1024*a*b + b^2) / 2^18
GrowCapacity(capacity) ==
  LET a == capacity \div 512
      b == capacity % 512
      f == MAX_GROW_FACTOR - MIN_GROW_FACTOR
      r == f * (1024 * a * b + b * b)
  IN  IF capacity >= PEAK_CAPACITY THEN capacity * MIN_GROW_FACTOR
      ELSE MAX_GROW_FACTOR * capacity - f * a * a
             + ((PEAK_CAPACITY \div 2 - r) \div PEAK_CAPACITY)

\* a policy that returns the capacity computed, below MIN_CAPACITY too
getNextEdgeCapacityUnclamped(capacity, count, load) ==
  LET newCapacity ==
        IF LoadGT(load, LOAD_FACTOR_TENTHS) THEN GrowCapacity(capacity)
        ELSE IF LoadLT(load, UNLOAD_FACTOR_TENTHS) THEN (capacity + 1) \div 2
        ELSE capacity
  IN  IF newCapacity <= EDGE_MAX_CAPACITY
      THEN [ret |-> "ok", v |-> newCapacity]
      ELSE [ret |-> "throw", v |-> 0]

\* a policy that grows whatever the load
getNextEdgeCapacityGrows(capacity, count, load) ==
  [ret |-> "ok", v |-> MAX_GROW_FACTOR * (capacity + 1)]

getNextEdgeCapacity(capacity, count, load) ==
  LET newCapacity ==
        IF LoadGT(load, LOAD_FACTOR_TENTHS) THEN GrowCapacity(capacity)
        ELSE IF LoadLT(load, UNLOAD_FACTOR_TENTHS) THEN (capacity + 1) \div 2
        ELSE capacity
  IN  IF newCapacity <= EDGE_MAX_CAPACITY
      THEN [ret |-> "ok", v |-> IF newCapacity < MIN_CAPACITY THEN MIN_CAPACITY ELSE newCapacity]
      ELSE [ret |-> "throw", v |-> 0]

(***************************************************************************)
(* AdjacencyList.  A list is [nodes, edges, typedArray]; an operation      *)
(* returns the list it leaves behind and ret: "true", "false", "ok" (no    *)
(* result) or "throw" (an assertion failed; the list is as the writes      *)
(* before it left it).  An operation is a sequence of steps, each the      *)
(* operator of the statements from that point on.                          *)
(*                                                                         *)
(* this._nodes and this._edges are references to map objects.  nodes and   *)
(* edges are the contents of the maps the list refers to now; retired are  *)
(* the maps an operation has stopped referring to (it assigned a new map   *)
(* to this._nodes or this._edges), oldest first, each with the contents it *)
(* had when the list let go of it.                                         *)
(***************************************************************************)
Ret(ret, g) == [ret |-> ret, g |-> g]

NewList(nodeCapacity, edgeCapacity, typedArray) ==
  [nodes |-> NewMap(nodeCapacity, NODE_ITEM_SIZE, typedArray),
   edges |-> NewMap(edgeCapacity, EDGE_ITEM_SIZE, typedArray),
   typedArray |-> typedArray,
   retired |-> <<>>]

\* the map `kind` of g as the list lets go of it
Retired(g, kind) ==
  [kind |-> kind, a |-> IF kind = "nodes" THEN g.nodes ELSE g.edges]

\* the list when the operation has returned: nothing is retired yet
Settled(g) == [g EXCEPT !.retired = <<>>]

\* a resizeNodes that clears the map it replaces
resizeNodesSetClears(g, r) ==
  Ret(r.ret, [g EXCEPT !.nodes = r.a,
                       !.retired = Append(@, [kind |-> "nodes",
                                              a |-> NewMap(capacityOf(g.nodes), NODE_ITEM_SIZE, g.nodes.w)])])

\* this._nodes = new NodeTypeMap(size); this._nodes.set(nodes.data)
\* (the new map is constructed without the typedArray argument: a Uint32Array)
resizeNodesSet(g, r) ==
  Ret(r.ret, [g EXCEPT !.nodes = r.a, !.retired = Append(@, Retired(g, "nodes"))])

resizeNodes(g, size) ==
  resizeNodesSet(g, setData(NewMap(size, NODE_ITEM_SIZE, Uint32), g.nodes, NODE_ITEM_SIZE))

\* this.resizeNodes(increaseNodeCapacity(this._nodes.capacity))
growNodesTo(g, inc) == IF inc.ret = "throw" THEN Ret("throw", g) ELSE resizeNodes(g, inc.v)

growNodes(g) == growNodesTo(g, increaseNodeCapacity(capacityOf(g.nodes)))

addNodeResize(g, id) ==
  IF NodeLoadGT(g.nodes, LOAD_FACTOR_TENTHS)
  THEN [ret |-> growNodes(g).ret, id |-> id, g |-> growNodes(g).g]
  ELSE [ret |-> "ok", id |-> id, g |-> g]

addNode(g) == addNodeResize([g EXCEPT !.nodes = getId(g.nodes)], nextIdOf(g.nodes))

RECURSIVE addEdge(_, _, _, _)
RECURSIVE resizeEdges(_, _)
RECURSIVE copyEdges(_, _, _, _)

\* const prevOut = nodes.linkOut(fromNode, edge); if (prevOut !== null) edges.linkOut(prevOut, edge)
addEdgeLinkOut(g, fromNode, edge) ==
  Ret("true",
      [g EXCEPT !.nodes = NodeLinkOut(g.nodes, fromNode, edge),
                !.edges = IF lastOut(g.nodes, fromNode) # 0
                          THEN EdgeLinkOut(g.edges, lastOut(g.nodes, fromNode), edge)
                          ELSE g.edges])

\* const prevIn = nodes.linkIn(toNode, edge); if (prevIn !== null) edges.linkIn(prevIn, edge)
addEdgeLinkIn(g, toNode, fromNode, edge) ==
  addEdgeLinkOut(
      [g EXCEPT !.nodes = NodeLinkIn(g.nodes, toNode, edge),
                !.edges = IF lastIn(g.nodes, toNode) # 0
                          THEN EdgeLinkIn(g.edges, lastIn(g.nodes, toNode), edge)
                          ELSE g.edges],
      fromNode, edge)

\* edge = edges.add(hash, from, to, type)
addEdgeAdded(g, r, toNode, fromNode, edge) ==
  IF r.ret = "throw" THEN Ret("throw", g)
  ELSE addEdgeLinkIn([g EXCEPT !.edges = r.a], toNode, fromNode, edge)

addEdgeRecord(g, toNode, fromNode, from, to, type) ==
  addEdgeAdded(g, EdgeAdd(g.edges, hash(g.edges, from, to, type), from, to, type),
               toNode, fromNode, EdgeGetNextAddress(g.edges))

\* if (fromNode === null) fromNode = nodes.add(from, type)
addEdgeFromAdded(g, r, toNode, fromNode, from, to, type) ==
  IF r.ret = "throw" THEN Ret("throw", g)
  ELSE addEdgeRecord([g EXCEPT !.nodes = r.a], toNode, fromNode, from, to, type)

addEdgeFrom(g, toNode, fromNode, from, to, type) ==
  IF fromNode # 0 THEN addEdgeRecord(g, toNode, fromNode, from, to, type)
  ELSE addEdgeFromAdded(g, NodeAdd(g.nodes, from, type), toNode,
                        NodeGetNextAddress(g.nodes), from, to, type)

\* if (toNode === null) toNode = nodes.add(to, type)
addEdgeToAdded(g, r, toNode, fromNode, from, to, type) ==
  IF r.ret = "throw" THEN Ret("throw", g)
  ELSE addEdgeFrom([g EXCEPT !.nodes = r.a], toNode, fromNode, from, to, type)

addEdgeTo(g, toNode, fromNode, from, to, type) ==
  IF toNode # 0 THEN addEdgeFrom(g, toNode, fromNode, from, to, type)
  ELSE addEdgeToAdded(g, NodeAdd(g.nodes, to, type), NodeGetNextAddress(g.nodes),
                      fromNode, from, to, type)

\* toNode = nodes.addressOf(to, type); fromNode = nodes.addressOf(from, type);
\* the call does not return ("diverges") when a walk of addressOf never ends
addEdgeLookup(g, from, to, type) ==
  IF ~(addressOfEnds(g.nodes, to, type) /\ addressOfEnds(g.nodes, from, type))
  THEN Ret("diverges", g)
  ELSE
  addEdgeTo(g, NodeAddressOf(g.nodes, to, type), NodeAddressOf(g.nodes, from, type),
            from, to, type)

addEdgeGrown(r, from, to, type) ==
  IF r.ret = "throw" THEN r ELSE addEdgeLookup(r.g, from, to, type)

\* the node lookups, and the resize of the node map when one of them fails
addEdgeNodes(g, from, to, type) ==
  IF ~(addressOfEnds(g.nodes, to, type) /\ addressOfEnds(g.nodes, from, type))
  THEN Ret("diverges", g)
  ELSE
  IF /\ NodeAddressOf(g.nodes, to, type) = 0 \/ NodeAddressOf(g.nodes, from, type) = 0
     /\ NodeLoadGE(g.nodes, LOAD_FACTOR_TENTHS)
  THEN addEdgeGrown(growNodes(g), from, to, type)
  ELSE addEdgeLookup(g, from, to, type)

addEdgeResized(g, r, from, to, type) ==
  IF r.ret = "throw" THEN Ret("throw", g) ELSE addEdgeNodes(r.g, from, to, type)

\* this.resizeEdges(getNextEdgeCapacity(...))
resizeEdgesTo(g, nc) == IF nc.ret = "throw" THEN Ret("throw", g) ELSE resizeEdges(g, nc.v)

\* an addEdge that never resizes the edge map
addEdgeNewInPlace(g, from, to, type, count, deletes) == addEdgeNodes(g, from, to, type)

\* the edge is not in the list: count is the count with the new edge
addEdgeNew(g, from, to, type, count, deletes) ==
  IF LoadGT(getLoad(g.edges, count + deletes), LOAD_FACTOR_TENTHS)
  THEN IF LoadGT(getLoad(g.edges, deletes), UNLOAD_FACTOR_TENTHS)
       THEN addEdgeResized(g, resizeEdgesTo(g, getNextEdgeCapacity(capacityOf(g.edges), count,
                                                   getLoad(g.edges, count))),
                           from, to, type)
       ELSE addEdgeResized(g, resizeEdgesTo(g, getNextEdgeCapacity(capacityOf(g.edges),
                                                   count + deletes,
                                                   getLoad(g.edges, count + deletes))),
                           from, to, type)
  ELSE addEdgeNodes(g, from, to, type)

\* an addEdge that asserts type >= 0
addEdgeFromZero(g, from, to, type) ==
  IF ~(type >= 0) THEN Ret("throw", g)
  ELSE IF EdgeAddressOf(g.edges, hash(g.edges, from, to, type), from, to, type) # 0
  THEN Ret("false", g)
  ELSE addEdgeNew(g, from, to, type, countOf(g.edges) + 1, deletesOf(g.edges))

addEdge(g, from, to, type) ==
  IF ~(type > 0) THEN Ret("throw", g)
  ELSE IF EdgeAddressOf(g.edges, hash(g.edges, from, to, type), from, to, type) # 0
  THEN Ret("false", g)
  ELSE addEdgeNew(g, from, to, type, countOf(g.edges) + 1, deletesOf(g.edges))

\* the forEach callback of resizeEdges, applied to items[i], items[i+1], ...
copyEdgesNext(r, edges, items, i) ==
  IF r.ret = "throw" THEN r ELSE copyEdges(r.g, edges, items, i + 1)

copyEdges(copy, edges, items, i) ==
  IF i > Len(items) THEN Ret("true", copy)
  ELSE copyEdgesNext(addEdge(copy, fromOf(edges, items[i]), toOf(edges, items[i]),
                             typeOf(edges, items[i])),
                     edges, items, i)

\* the assertion on the counts and the swap of the maps
resizeEdgesSwap(g, r) ==
  IF r.ret = "throw" THEN Ret("throw", g)
  ELSE IF countOf(g.edges) # countOf(r.g.edges) THEN Ret("throw", g)
  ELSE Ret("true",
           [r.g EXCEPT !.retired =
              g.retired \o <<Retired(g, "nodes"), Retired(g, "edges")>> \o @])

\* resizeEdgesCopy that does not carry nextId over
resizeEdgesCopyFresh(g, copy) == copy

\* copy = new AdjacencyList(...); copy._nodes.nextId = this._nodes.nextId
resizeEdgesCopy(g, copy) ==
  [copy EXCEPT !.nodes = Wr(copy.nodes, NEXT_ID, nextIdOf(g.nodes))]

resizeEdges(g, size) ==
  IF ~(capacityOf(g.nodes) <= NODE_MAX_CAPACITY /\ size <= EDGE_MAX_CAPACITY)
  THEN Ret("throw", g)
  ELSE resizeEdgesSwap(g, copyEdges(resizeEdgesCopy(g, NewList(capacityOf(g.nodes), size, g.typedArray)),
                                    g.edges, forEach(g.edges, EDGE_ITEM_SIZE), 1))

removeEdgeLinks(g, h, edge, toNode, fromNode) ==
  Ret("true",
      [g EXCEPT
         !.nodes = NodeUnlinkOut(NodeUnlinkIn(g.nodes, toNode, edge,
                                              prevIn(g.edges, edge), nextIn(g.edges, edge)),
                                 fromNode, edge, prevOut(g.edges, edge), nextOut(g.edges, edge)),
         !.edges = EdgeDelete(EdgeUnlinkOut(EdgeUnlinkIn(unlink(g.edges, h, edge), edge), edge),
                              edge)])

removeEdgeAt(g, from, to, type, h, edge) ==
  IF edge = 0 THEN Ret("false", g)
  ELSE IF NodeAddressOf(g.nodes, to, type) = 0 \/ NodeAddressOf(g.nodes, from, type) = 0
  THEN Ret("throw", g)
  ELSE removeEdgeLinks(g, h, edge, NodeAddressOf(g.nodes, to, type),
                       NodeAddressOf(g.nodes, from, type))

removeEdge(g, from, to, type) ==
  removeEdgeAt(g, from, to, type, hash(g.edges, from, to, type),
               EdgeAddressOf(g.edges, hash(g.edges, from, to, type), from, to, type))

(***************************************************************************)
(* Queries.  The type argument of a query is a number or an array of       *)
(* numbers: [isArray, v], v the sequence of the numbers.                   *)
(***************************************************************************)
Num(t) == [isArray |-> FALSE, v |-> <<t>>]
Arr(ts) == [isArray |-> TRUE, v |-> ts]

Range(seq) == {seq[i] : i \in 1..Len(seq)}

getAllEdges(g) ==
  LET it == iterator(g.edges, EDGE_ITEM_SIZE)
  IN  [i \in 1..Len(it) |->
         <<fromOf(g.edges, it[i]), toOf(g.edges, it[i]), typeOf(g.edges, it[i])>>]

hasEdgeOfType(g, from, to, type) ==
  EdgeAddressOf(g.edges, hash(g.edges, from, to, type), from, to, type) # 0

hasEdge(g, from, to, type) ==
  IF type.isArray THEN \E i \in 1..Len(type.v) : hasEdgeOfType(g, from, to, type.v[i])
  ELSE hasEdgeOfType(g, from, to, type.v[1])

matches(g, node, type) ==
  \/ ~type.isArray /\ type.v[1] = AllEdgeTypes
  \/ IF type.isArray THEN typeOf(g.nodes, node) \in Range(type.v)
     ELSE type.v[1] = typeOf(g.nodes, node)

\* the inner loop of getNodeIdsConnectedFrom: the out list from edge on
RECURSIVE walkOut(_, _, _)
walkOut(g, edge, nodes) ==
  IF edge = 0 THEN nodes
  ELSE walkOut(g, nextOut(g.edges, edge),
               IF toOf(g.edges, edge) \in Range(nodes) THEN nodes
               ELSE Append(nodes, toOf(g.edges, edge)))

RECURSIVE connectedFrom(_, _, _, _)
connectedFrom(g, node, type, nodes) ==
  IF node = 0 THEN nodes
  ELSE connectedFrom(g, next(g.nodes, node), type,
                     IF matches(g, node, type)
                     THEN walkOut(g, firstOut(g.nodes, node), nodes)
                     ELSE nodes)

getNodeIdsConnectedFrom(g, from, type) ==
  connectedFrom(g, head(g.nodes, from), type, <<>>)

\* the inner loop of getNodeIdsConnectedTo: the in list from edge on
RECURSIVE walkIn(_, _, _)
walkIn(g, edge, nodes) ==
  IF edge = 0 THEN nodes
  ELSE walkIn(g, nextIn(g.edges, edge),
              IF fromOf(g.edges, edge) \in Range(nodes) THEN nodes
              ELSE Append(nodes, fromOf(g.edges, edge)))

RECURSIVE connectedTo(_, _, _, _)
connectedTo(g, node, type, nodes) ==
  IF node = 0 THEN nodes
  ELSE connectedTo(g, next(g.nodes, node), type,
                   IF matches(g, node, type)
                   THEN walkIn(g, firstIn(g.nodes, node), nodes)
                   ELSE nodes)

getNodeIdsConnectedTo(g, to, type) ==
  connectedTo(g, head(g.nodes, to), type, <<>>)

\* hasInboundEdges: some record of the node has a first incoming edge
RECURSIVE anyFirstIn(_, _)
anyFirstIn(g, node) ==
  IF node = 0 THEN FALSE
  ELSE IF firstIn(g.nodes, node) # 0 THEN TRUE
  ELSE anyFirstIn(g, next(g.nodes, node))

hasInboundEdges(g, to) == anyFirstIn(g, head(g.nodes, to))

\* the inner loop of getInboundEdgesByType: the in list from edge on
RECURSIVE inboundOf(_, _, _, _)
inboundOf(g, type, edge, edges) ==
  IF edge = 0 THEN edges
  ELSE inboundOf(g, type, nextIn(g.edges, edge),
                 Append(edges, [from |-> fromOf(g.edges, edge), type |-> type]))

RECURSIVE inboundByType(_, _, _)
inboundByType(g, node, edges) ==
  IF node = 0 THEN edges
  ELSE inboundByType(g, next(g.nodes, node),
                     inboundOf(g, typeOf(g.nodes, node), firstIn(g.nodes, node), edges))

getInboundEdgesByType(g, to) == inboundByType(g, head(g.nodes, to), <<>>)

\* the inner loop of getOutboundEdgesByType: the out list from edge on
RECURSIVE outboundOf(_, _, _, _)
outboundOf(g, type, edge, edges) ==
  IF edge = 0 THEN edges
  ELSE outboundOf(g, type, nextOut(g.edges, edge),
                  Append(edges, [to |-> toOf(g.edges, edge), type |-> type]))

RECURSIVE outboundByType(_, _, _)
outboundByType(g, node, edges) ==
  IF node = 0 THEN edges
  ELSE outboundByType(g, next(g.nodes, node),
                      outboundOf(g, typeOf(g.nodes, node), firstOut(g.nodes, node), edges))

getOutboundEdgesByType(g, from) == outboundByType(g, head(g.nodes, from), <<>>)

(***************************************************************************)
(* serialize and deserialize.  The serialized object is [nodes, edges]:    *)
(* the data arrays of the two maps themselves.  The constructor keeps the  *)
(* arrays it is given as the data of its maps.                             *)
(***************************************************************************)
serialize(g) == [nodes |-> g.nodes, edges |-> g.edges]

\* the assertion without its right-hand side reading the length
dataIntactAnyLength(data, isz) == getLength(capacityOf(data), isz) >= HEADER_SIZE

\* new SharedTypeMap(data): the assertion 'Data appears corrupt.' holds
dataIntact(data, isz) == getLength(capacityOf(data), isz) = lengthOf(data)

\* opts.typedArray || Uint32Array
typedArrayOf(opts) ==
  IF "typedArray" \in DOMAIN opts THEN opts.typedArray ELSE Uint32

\* deserialize that builds maps of its own
deserializeAnew(opts) ==
  Ret("ok", NewList(capacityOf(opts.nodes), capacityOf(opts.edges), typedArrayOf(opts)))

deserialize(opts) ==
  Ret(IF dataIntact(opts.nodes, NODE_ITEM_SIZE) /\ dataIntact(opts.edges, EDGE_ITEM_SIZE)
      THEN "ok" ELSE "throw",
      [nodes |-> opts.nodes, edges |-> opts.edges, typedArray |-> typedArrayOf(opts),
       retired |-> <<>>])

(***************************************************************************)
(* The Graph wrapper, as far as serialization goes: [nodes, adjacencyList, *)
(* rootNodeId], rootNodeId the set of the root id (empty: undefined).      *)
(***************************************************************************)
\* this.rootNodeId ?? 0
rootOrZero(rootNodeId) == IF rootNodeId = {} THEN 0 ELSE CHOOSE r \in rootNodeId : TRUE

GraphSerialize(gr) ==
  [nodes |-> gr.nodes,
   adjacencyList |-> serialize(gr.adjacencyList),
   rootNodeId |-> rootOrZero(gr.rootNodeId)]

\* Graph.deserialize(opts), opts a serialized graph
GraphDeserialize(opts) ==
  Ret(deserialize(opts.adjacencyList).ret,
      [nodes |-> opts.nodes,
       adjacencyList |-> deserialize(opts.adjacencyList).g,
       rootNodeId |-> {opts.rootNodeId}])

(***************************************************************************)
(* The Graph operations.  nodes is the Map from node id to node value, a   *)
(* function on the ids it holds; the value 0 stands for a falsy value.  An *)
(* operation returns Ret(ret, graph), ret as for the AdjacencyList.        *)
(***************************************************************************)
NewGraph == [nodes |-> <<>>, adjacencyList |-> NewList(MIN_CAPACITY, MIN_CAPACITY, Uint32),
             rootNodeId |-> {}]

hasNode(gr, id) == id \in DOMAIN gr.nodes

\* this.nodes.get(id) ?? null, as the condition !this.getNode(id)
getNodeIsFalsy(gr, id) == ~hasNode(gr, id) \/ gr.nodes[id] = 0

\* this.nodes.set(id, node)
nodesSet(nodes, id, node) ==
  [v \in DOMAIN nodes \cup {id} |-> IF v = id THEN node ELSE nodes[v]]

\* this.nodes.delete(id)
nodesDelete(nodes, id) == [v \in DOMAIN nodes \ {id} |-> nodes[v]]

GraphAddNodeSet(gr, r, node) ==
  IF r.ret = "throw" THEN [ret |-> "throw", id |-> r.id, g |-> [gr EXCEPT !.adjacencyList = r.g]]
  ELSE [ret |-> "ok", id |-> r.id,
        g |-> [gr EXCEPT !.adjacencyList = r.g, !.nodes = nodesSet(@, r.id, node)]]

GraphAddNode(gr, node) == GraphAddNodeSet(gr, addNode(gr.adjacencyList), node)

GraphAddEdgeList(gr, r) == Ret(r.ret, [gr EXCEPT !.adjacencyList = r.g])

GraphAddEdge(gr, from, to, type) ==
  IF type = 0 THEN Ret("throw", gr)
  ELSE IF getNodeIsFalsy(gr, from) THEN Ret("throw", gr)
  ELSE IF getNodeIsFalsy(gr, to) THEN Ret("throw", gr)
  ELSE GraphAddEdgeList(gr, addEdge(gr.adjacencyList, from, to, type))

\* the nodes the walk of traverseAncestors(nodeId, visit, AllEdgeTypes)
\* enters when nothing stops it: seen holds the nodes entered so far
RECURSIVE ancestorsEntered(_, _)
ancestorsEntered(gr, seen) ==
  IF seen \cup {c \in DOMAIN gr.nodes :
                  \E n \in seen :
                    c \in Range(getNodeIdsConnectedTo(gr.adjacencyList, n, Num(AllEdgeTypes)))}
       = seen
  THEN seen
  ELSE ancestorsEntered(gr,
         seen \cup {c \in DOMAIN gr.nodes :
                      \E n \in seen :
                        c \in Range(getNodeIdsConnectedTo(gr.adjacencyList, n, Num(AllEdgeTypes)))})

\* hasPathToRoot: the walk enters the root, and stops there
hasPathToRoot(gr, nodeId) == gr.rootNodeId \subseteq ancestorsEntered(gr, {nodeId})

\* a node is taken for orphaned as soon as it is in the graph
isOrphanedNodeAlways(gr, nodeId) == hasNode(gr, nodeId)

isOrphanedNode(gr, nodeId) ==
  IF ~hasNode(gr, nodeId) THEN FALSE
  ELSE IF gr.rootNodeId = {} THEN ~hasInboundEdges(gr.adjacencyList, nodeId)
  ELSE ~hasPathToRoot(gr, nodeId)

RECURSIVE GraphRemoveNode(_, _)
RECURSIVE removeEdgeOrphans(_, _, _, _, _)
RECURSIVE removeNodeInbound(_, _, _, _)
RECURSIVE removeNodeOutbound(_, _, _, _)

\* _removeEdge after this.adjacencyList.removeEdge(from, to, type) left r
removeEdgeOrphaned(gr, r, to, removeOrphans) ==
  IF r.ret = "throw" THEN Ret("throw", [gr EXCEPT !.adjacencyList = r.g])
  ELSE IF removeOrphans /\ isOrphanedNode([gr EXCEPT !.adjacencyList = r.g], to)
  THEN Ret(IF GraphRemoveNode([gr EXCEPT !.adjacencyList = r.g], to).ret = "throw"
           THEN "throw" ELSE "true",
           GraphRemoveNode([gr EXCEPT !.adjacencyList = r.g], to).g)
  ELSE Ret("true", [gr EXCEPT !.adjacencyList = r.g])

\* _removeEdge(from, to, type, removeOrphans)
removeEdgeOrphans(gr, from, to, type, removeOrphans) ==
  IF ~hasEdge(gr.adjacencyList, from, to, Num(type)) THEN Ret("false", gr)
  ELSE removeEdgeOrphaned(gr, removeEdge(gr.adjacencyList, from, to, type), to, removeOrphans)

\* the first loop of removeNode, not run
removeNodeInboundSkipped(gr, nodeId, ins, i) == Ret("ok", gr)

\* the first loop of removeNode, from the i-th inbound edge on
removeNodeInboundNext(r, nodeId, ins, i) ==
  IF r.ret = "throw" THEN r ELSE removeNodeInbound(r.g, nodeId, ins, i + 1)

removeNodeInbound(gr, nodeId, ins, i) ==
  IF i > Len(ins) THEN Ret("ok", gr)
  ELSE removeNodeInboundNext(removeEdgeOrphans(gr, ins[i].from, nodeId, ins[i].type, FALSE),
                             nodeId, ins, i)

\* let wasRemoved = this.nodes.delete(nodeId); assert(wasRemoved)
removeNodeDelete(gr, nodeId) ==
  IF hasNode(gr, nodeId) THEN Ret("true", [gr EXCEPT !.nodes = nodesDelete(@, nodeId)])
  ELSE Ret("throw", gr)

\* the second loop of removeNode, from the i-th outbound edge on
removeNodeOutboundNext(r, nodeId, outs, i) ==
  IF r.ret = "throw" THEN r ELSE removeNodeOutbound(r.g, nodeId, outs, i + 1)

removeNodeOutbound(gr, nodeId, outs, i) ==
  IF i > Len(outs) THEN removeNodeDelete(gr, nodeId)
  ELSE removeNodeOutboundNext(removeEdgeOrphans(gr, nodeId, outs[i].to, outs[i].type, TRUE),
                              nodeId, outs, i)

removeNodeEdges(r, nodeId) ==
  IF r.ret = "throw" THEN r
  ELSE removeNodeOutbound(r.g, nodeId, getOutboundEdgesByType(r.g.adjacencyList, nodeId), 1)

GraphRemoveNode(gr, nodeId) ==
  IF ~hasNode(gr, nodeId) THEN Ret("false", gr)
  ELSE removeNodeEdges(removeNodeInbound(gr, nodeId,
                                         getInboundEdgesByType(gr.adjacencyList, nodeId), 1),
                       nodeId)

\* Graph.removeEdge(from, to, type): removeOrphans is true
GraphRemoveEdge(gr, from, to, type) ==
  IF ~hasEdge(gr.adjacencyList, from, to, Num(type)) THEN Ret("throw", gr)
  ELSE removeEdgeOrphans(gr, from, to, type, TRUE)

(***************************************************************************)
(* Buffers and their holders.  heap is the sequence of the typed arrays    *)
(* allocated so far, and a holder refers to an array by its index in heap  *)
(* (0: none).  G is an AdjacencyList, s the object G.serialize() returned, *)
(* H the list AdjacencyList.deserialize(s); by is the holder that acted    *)
(* last.                                                                   *)
(***************************************************************************)
NewShared ==
  [heap |-> <<NewMap(MIN_CAPACITY, NODE_ITEM_SIZE, Uint32),
              NewMap(MIN_CAPACITY, EDGE_ITEM_SIZE, Uint32)>>,
   G |-> [nodes |-> 1, edges |-> 2, typedArray |-> Uint32],
   s |-> [nodes |-> 0, edges |-> 0],
   H |-> [nodes |-> 0, edges |-> 0, typedArray |-> Uint32],
   by |-> "G"]

\* the list of holder who, its maps read through its references
Load(sh, who) ==
  [nodes |-> sh.heap[sh[who].nodes], edges |-> sh.heap[sh[who].edges],
   typedArray |-> sh[who].typedArray, retired |-> <<>>]

\* the two arrays a holder refers to, element for element
View(sh, who) == [nodes |-> sh.heap[sh[who].nodes], edges |-> sh.heap[sh[who].edges]]

\* the maps of the given kind that g has let go of, oldest first
RetiredOf(g, kind) == SelectSeq(g.retired, LAMBDA x : x.kind = kind)

\* what an operation of holder who that left the list g does to the arrays
\* of one kind: without a resize its writes went into the array the holder
\* refers to; with a resize that array keeps what it held when the list let
\* go of it, and the holder refers to a new array
CommitMap(sh, who, kind, g, rs) ==
  IF rs = <<>>
  THEN [sh EXCEPT !.heap[sh[who][kind]] = g[kind]]
  ELSE [sh EXCEPT !.heap = Append([@ EXCEPT ![sh[who][kind]] = rs[1].a], g[kind]),
                  ![who][kind] = Len(sh.heap) + 1]

Commit(sh, who, g) ==
  [CommitMap(CommitMap(sh, who, "nodes", g, RetiredOf(g, "nodes")),
             who, "edges", g, RetiredOf(g, "edges"))
     EXCEPT !.by = who]

\* s = G.serialize(): the object refers to G's own arrays
serializeShared(sh) ==
  [sh EXCEPT !.s = [nodes |-> sh.G.nodes, edges |-> sh.G.edges], !.by = "G"]

\* a deserialize whose maps are copies of the arrays in s
deserializeSharedCopies(sh) ==
  [sh EXCEPT !.heap = @ \o <<@[sh.s.nodes], @[sh.s.edges]>>,
             !.H = [nodes |-> Len(sh.heap) + 1, edges |-> Len(sh.heap) + 2,
                    typedArray |-> Uint32],
             !.by = "H"]

\* H = AdjacencyList.deserialize(s): this.data = capacityOrData
deserializeShared(sh) ==
  [sh EXCEPT !.H = [nodes |-> sh.s.nodes, edges |-> sh.s.edges, typedArray |-> Uint32],
             !.by = "H"]

\* s.nodes[i] = v or s.edges[i] = v, written by the holder of s
writeShared(sh, kind, i, v) ==
  [sh EXCEPT !.heap[sh.s[kind]] = Wr(@, i, v), !.by = "s"]

(***************************************************************************)
(* One list per element width, all three built by new AdjacencyList({      *)
(* typedArray }) with the default capacities and given the same calls.     *)
(***************************************************************************)
Widths == {Uint8, Uint16, Uint32}

\* lists[w] is the list of element width w, rets[w] what its last call
\* returned
NewWidths ==
  [lists |-> [w \in Widths |-> NewList(MIN_CAPACITY, MIN_CAPACITY, w)],
   rets |-> [w \in Widths |-> "ok"]]

(***************************************************************************)
(* The state machine: one default AdjacencyList and its callers' view.     *)
(*   list    the AdjacencyList                                             *)
(*   ids     the ids returned by the addNode calls, in call order          *)
(*   order   the live triples, in the order of their latest successful     *)
(*           addEdge                                                       *)
(*   adds    the number of addEdge calls that returned true                *)
(*   removes the number of removeEdge calls that returned true             *)
(*   last    the last call: operation, arguments, result                   *)
(*   ops     the number of calls made                                      *)
(***************************************************************************)
VARIABLES list, ids, order, adds, removes, last, ops, shared, widths, graph

vars == <<list, ids, order, adds, removes, last, ops, shared, widths, graph>>

Types == 1..MaxType

Minted == Range(ids)

Live == Range(order)

RECURSIVE Without(_, _)
Without(seq, x) ==
  IF seq = <<>> THEN <<>>
  ELSE IF Head(seq) = x THEN Without(Tail(seq), x)
  ELSE <<Head(seq)>> \o Without(Tail(seq), x)

Call(op, from, to, type, ret) ==
  [op |-> op, from |-> from, to |-> to, type |-> type, ret |-> ret]

Init ==
  /\ list = NewList(MIN_CAPACITY, MIN_CAPACITY, Uint32)
  /\ ids = <<>>
  /\ order = <<>>
  /\ adds = 0
  /\ removes = 0
  /\ last = Call("new", 0, 0, 0, "ok")
  /\ ops = 0
  /\ shared = NewShared
  /\ widths = NewWidths
  /\ graph = NewGraph

AddNode ==
  /\ ops < MaxOps
  /\ Len(ids) < MaxNodes
  /\ LET r == addNode(list)
     IN  /\ list' = Settled(r.g)
         /\ ids' = IF r.ret = "ok" THEN Append(ids, r.id) ELSE ids
         /\ last' = Call("addNode", 0, 0, 0, r.ret)
  /\ ops' = ops + 1
  /\ UNCHANGED <<order, adds, removes, shared, widths, graph>>

AddEdge ==
  /\ ops < MaxOps
  /\ \E from \in Minted, to \in Minted, type \in Types :
       LET r == addEdge(list, from, to, type)
       IN  /\ list' = Settled(r.g)
           /\ order' = IF r.ret = "true" THEN Append(order, <<from, to, type>>) ELSE order
           /\ adds' = IF r.ret = "true" THEN adds + 1 ELSE adds
           /\ last' = Call("addEdge", from, to, type, r.ret)
  /\ ops' = ops + 1
  /\ UNCHANGED <<ids, removes, shared, widths, graph>>

RemoveEdge ==
  /\ ops < MaxOps
  /\ \E from \in Minted, to \in Minted, type \in Types :
       LET r == removeEdge(list, from, to, type)
       IN  /\ list' = Settled(r.g)
           /\ order' = IF r.ret = "true" THEN Without(order, <<from, to, type>>) ELSE order
           /\ removes' = IF r.ret = "true" THEN removes + 1 ELSE removes
           /\ last' = Call("removeEdge", from, to, type, r.ret)
  /\ ops' = ops + 1
  /\ UNCHANGED <<ids, adds, shared, widths, graph>>

ResizeEdges ==
  /\ ops < MaxOps
  /\ \E size \in 0..MaxResize :
       LET r == resizeEdges(list, size)
       IN  /\ list' = Settled(r.g)
           /\ last' = Call("resizeEdges", size, 0, 0, r.ret)
  /\ ops' = ops + 1
  /\ UNCHANGED <<ids, order, adds, removes, shared, widths, graph>>

Next == AddNode \/ AddEdge \/ RemoveEdge \/ ResizeEdges

Spec == Init /\ [][Next]_vars

\* no call of a behaviour fails an assertion
NoThrow == last.ret # "throw"

(***************************************************************************)
(* The wildcard scenario: nodes are added to a default list, and the edges *)
(* (a, b, 1), (a, c, 2), (a, d, 1) are added in that order, a, b, c, d     *)
(* four distinct nodes.                                                    *)
(***************************************************************************)
ScenarioAddNode ==
  /\ Len(ids) < MaxScenarioNodes
  /\ LET r == addNode(list)
     IN  /\ list' = Settled(r.g)
         /\ ids' = IF r.ret = "ok" THEN Append(ids, r.id) ELSE ids
         /\ last' = Call("addNode", 0, 0, 0, r.ret)
  /\ ops' = ops + 1
  /\ UNCHANGED <<order, adds, removes, shared, widths, graph>>

\* the edges the scenario may add next
ScenarioEdges ==
  IF Len(order) = 0 THEN {<<a, b, 1>> : a \in Minted, b \in Minted} \ {<<a, a, 1>> : a \in Minted}
  ELSE IF Len(order) = 1
  THEN {<<order[1][1], c, 2>> : c \in Minted \ {order[1][1], order[1][2]}}
  ELSE IF Len(order) = 2
  THEN {<<order[1][1], d, 1>> : d \in Minted \ {order[1][1], order[1][2], order[2][2]}}
  ELSE {}

ScenarioAddEdge ==
  /\ \E e \in ScenarioEdges :
       LET r == addEdge(list, e[1], e[2], e[3])
       IN  /\ list' = Settled(r.g)
           /\ order' = IF r.ret = "true" THEN Append(order, e) ELSE order
           /\ adds' = IF r.ret = "true" THEN adds + 1 ELSE adds
           /\ last' = Call("addEdge", e[1], e[2], e[3], r.ret)
  /\ ops' = ops + 1
  /\ UNCHANGED <<ids, removes, shared, widths, graph>>

ScenarioNext == ScenarioAddNode \/ ScenarioAddEdge

SpecScenario == Init /\ [][ScenarioNext]_vars

(***************************************************************************)
(* Churn: nodes are added to a default list, resizeEdges gives the edge    *)
(* map a small capacity, and then edges out of the first node are added    *)
(* (triples that are not live) and removed (live triples).                 *)
(***************************************************************************)
ChurnAddNode ==
  /\ last.op \in {"new", "addNode"}
  /\ Len(ids) < MaxNodes
  /\ LET r == addNode(list)
     IN  /\ list' = Settled(r.g)
         /\ ids' = IF r.ret = "ok" THEN Append(ids, r.id) ELSE ids
         /\ last' = Call("addNode", 0, 0, 0, r.ret)
  /\ ops' = ops + 1
  /\ UNCHANGED <<order, adds, removes, shared, widths, graph>>

ChurnResizeEdges ==
  /\ last.op = "addNode"
  /\ \E size \in MIN_CAPACITY..MaxChurnCapacity :
       LET r == resizeEdges(list, size)
       IN  /\ list' = Settled(r.g)
           /\ last' = Call("resizeEdges", size, 0, 0, r.ret)
  /\ ops' = ops + 1
  /\ UNCHANGED <<ids, order, adds, removes, shared, widths, graph>>

ChurnAddEdge ==
  /\ last.op \in {"resizeEdges", "addEdge", "removeEdge"}
  /\ adds + removes < MaxChurnOps
  /\ \E from \in {ids[1]}, to \in Minted, type \in Types :
       /\ <<from, to, type>> \notin Live
       /\ LET r == addEdge(list, from, to, type)
          IN  /\ list' = Settled(r.g)
              /\ order' = IF r.ret = "true" THEN Append(order, <<from, to, type>>) ELSE order
              /\ adds' = IF r.ret = "true" THEN adds + 1 ELSE adds
              /\ last' = Call("addEdge", from, to, type, r.ret)
  /\ ops' = ops + 1
  /\ UNCHANGED <<ids, removes, shared, widths, graph>>

ChurnRemoveEdge ==
  /\ last.op \in {"resizeEdges", "addEdge", "removeEdge"}
  /\ adds + removes < MaxChurnOps
  /\ \E from \in {ids[1]}, to \in Minted, type \in Types :
       /\ <<from, to, type>> \in Live
       /\ LET r == removeEdge(list, from, to, type)
          IN  /\ list' = Settled(r.g)
              /\ order' = IF r.ret = "true" THEN Without(order, <<from, to, type>>) ELSE order
              /\ removes' = IF r.ret = "true" THEN removes + 1 ELSE removes
              /\ last' = Call("removeEdge", from, to, type, r.ret)
  /\ ops' = ops + 1
  /\ UNCHANGED <<ids, adds, shared, widths, graph>>

ChurnNext == ChurnAddNode \/ ChurnResizeEdges \/ ChurnAddEdge \/ ChurnRemoveEdge

SpecChurn == Init /\ [][ChurnNext]_vars

(***************************************************************************)
(* Two holders of one list's buffers: G is worked on, serialized into s,   *)
(* s is deserialized into H, and G, H and the holder of s go on writing.   *)
(* The holder of s writes the third header word of either array (nextId,   *)
(* deletes).  The nodes a holder may name are those its node map counts.   *)
(***************************************************************************)
SharedHolders == IF shared.H.nodes = 0 THEN {"G"} ELSE {"G", "H"}

SharedMinted(who) == 0..(nextIdOf(Load(shared, who).nodes) - 1)

SharedIdle == UNCHANGED <<list, ids, order, adds, removes, widths, graph>>

SharedAddNode ==
  /\ ops < MaxSharedOps
  /\ \E who \in SharedHolders :
       /\ nextIdOf(Load(shared, who).nodes) < MaxNodes
       /\ LET r == addNode(Load(shared, who))
          IN  /\ shared' = Commit(shared, who, r.g)
              /\ last' = Call("addNode", 0, 0, 0, r.ret)
  /\ ops' = ops + 1
  /\ SharedIdle

SharedAddEdge ==
  /\ ops < MaxSharedOps
  /\ \E who \in SharedHolders :
       \E from \in SharedMinted(who), to \in SharedMinted(who), type \in Types :
         LET r == addEdge(Load(shared, who), from, to, type)
         IN  /\ shared' = Commit(shared, who, r.g)
             /\ last' = Call("addEdge", from, to, type, r.ret)
  /\ ops' = ops + 1
  /\ SharedIdle

SharedRemoveEdge ==
  /\ ops < MaxSharedOps
  /\ \E who \in SharedHolders :
       \E from \in SharedMinted(who), to \in SharedMinted(who), type \in Types :
         LET r == removeEdge(Load(shared, who), from, to, type)
         IN  /\ shared' = Commit(shared, who, r.g)
             /\ last' = Call("removeEdge", from, to, type, r.ret)
  /\ ops' = ops + 1
  /\ SharedIdle

SharedResizeEdges ==
  /\ ops < MaxSharedOps
  /\ \E who \in SharedHolders, size \in 0..MaxResize :
       LET r == resizeEdges(Load(shared, who), size)
       IN  /\ shared' = Commit(shared, who, r.g)
           /\ last' = Call("resizeEdges", size, 0, 0, r.ret)
  /\ ops' = ops + 1
  /\ SharedIdle

SharedSerialize ==
  /\ ops < MaxSharedOps
  /\ shared' = serializeShared(shared)
  /\ last' = Call("serialize", 0, 0, 0, "ok")
  /\ ops' = ops + 1
  /\ SharedIdle

SharedDeserialize ==
  /\ ops < MaxSharedOps
  /\ shared.s.nodes # 0
  /\ deserialize(View(shared, "s")).ret = "ok"
  /\ shared' = deserializeShared(shared)
  /\ last' = Call("deserialize", 0, 0, 0, "ok")
  /\ ops' = ops + 1
  /\ SharedIdle

SharedWrite ==
  /\ ops < MaxSharedOps
  /\ shared.s.nodes # 0
  /\ \E kind \in {"nodes", "edges"}, v \in 0..MaxNodes :
       /\ shared' = writeShared(shared, kind, NEXT_ID, v)
       /\ last' = Call(kind, NEXT_ID, 0, v, "ok")
  /\ ops' = ops + 1
  /\ SharedIdle

SharedNext ==
  \/ SharedAddNode \/ SharedAddEdge \/ SharedRemoveEdge \/ SharedResizeEdges
  \/ SharedSerialize \/ SharedDeserialize \/ SharedWrite

SpecShared == Init /\ [][SharedNext]_vars

(***************************************************************************)
(* A list of any element type: new AdjacencyList({typedArray}) and then    *)
(* addNode, addEdge and removeEdge.                                        *)
(***************************************************************************)
TypedInit ==
  /\ list \in {NewList(MIN_CAPACITY, MIN_CAPACITY, w) : w \in Widths}
  /\ ids = <<>>
  /\ order = <<>>
  /\ adds = 0
  /\ removes = 0
  /\ last = Call("new", 0, 0, 0, "ok")
  /\ ops = 0
  /\ shared = NewShared
  /\ widths = NewWidths
  /\ graph = NewGraph

TypedNext == AddNode \/ AddEdge \/ RemoveEdge

SpecTyped == TypedInit /\ [][TypedNext]_vars

(***************************************************************************)
(* The same calls on an 8-bit, a 16-bit and a 32-bit list.  ids are the    *)
(* ids the 32-bit list returned; resizeEdges is called with a small size   *)
(* or with MaxWidthResize.                                                 *)
(***************************************************************************)
WidthsIdle == UNCHANGED <<list, order, adds, removes, shared, graph>>

WidthsAddNode ==
  /\ ops < MaxWidthOps
  /\ Len(ids) < MaxNodes
  /\ widths' = [lists |-> [w \in Widths |-> Settled(addNode(widths.lists[w]).g)],
                rets |-> [w \in Widths |-> addNode(widths.lists[w]).ret]]
  /\ ids' = Append(ids, addNode(widths.lists[Uint32]).id)
  /\ last' = Call("addNode", 0, 0, 0, addNode(widths.lists[Uint32]).ret)
  /\ ops' = ops + 1
  /\ WidthsIdle

WidthsAddEdge ==
  /\ ops < MaxWidthOps
  /\ \E from \in Minted, to \in Minted, type \in Types :
       /\ widths' = [lists |-> [w \in Widths |->
                                  Settled(addEdge(widths.lists[w], from, to, type).g)],
                     rets |-> [w \in Widths |-> addEdge(widths.lists[w], from, to, type).ret]]
       /\ last' = Call("addEdge", from, to, type,
                       addEdge(widths.lists[Uint32], from, to, type).ret)
  /\ ops' = ops + 1
  /\ UNCHANGED ids
  /\ WidthsIdle

WidthsRemoveEdge ==
  /\ ops < MaxWidthOps
  /\ \E from \in Minted, to \in Minted, type \in Types :
       /\ widths' = [lists |-> [w \in Widths |->
                                  Settled(removeEdge(widths.lists[w], from, to, type).g)],
                     rets |-> [w \in Widths |-> removeEdge(widths.lists[w], from, to, type).ret]]
       /\ last' = Call("removeEdge", from, to, type,
                       removeEdge(widths.lists[Uint32], from, to, type).ret)
  /\ ops' = ops + 1
  /\ UNCHANGED ids
  /\ WidthsIdle

WidthsResizeEdges ==
  /\ ops < MaxWidthOps
  /\ \E size \in (0..MaxResize) \cup {MaxWidthResize} :
       /\ widths' = [lists |-> [w \in Widths |-> Settled(resizeEdges(widths.lists[w], size).g)],
                     rets |-> [w \in Widths |-> resizeEdges(widths.lists[w], size).ret]]
       /\ last' = Call("resizeEdges", size, 0, 0, resizeEdges(widths.lists[Uint32], size).ret)
  /\ ops' = ops + 1
  /\ UNCHANGED ids
  /\ WidthsIdle

WidthsNext == WidthsAddNode \/ WidthsAddEdge \/ WidthsRemoveEdge \/ WidthsResizeEdges

SpecWidths == Init /\ [][WidthsNext]_vars

(***************************************************************************)
(* The default list, also given addEdge calls with a type that is not      *)
(* positive: 1 - MaxBadTypes .. 0.                                         *)
(***************************************************************************)
AddEdgeBadType ==
  /\ ops < MaxOps
  /\ \E from \in Minted, to \in Minted, type \in (1 - MaxBadTypes)..0 :
       LET r == addEdge(list, from, to, type)
       IN  /\ list' = Settled(r.g)
           /\ order' = IF r.ret = "true" THEN Append(order, <<from, to, type>>) ELSE order
           /\ adds' = IF r.ret = "true" THEN adds + 1 ELSE adds
           /\ last' = Call("addEdge", from, to, type, r.ret)
  /\ ops' = ops + 1
  /\ UNCHANGED <<ids, removes, shared, widths, graph>>

BadTypeNext == AddNode \/ AddEdge \/ RemoveEdge \/ ResizeEdges \/ AddEdgeBadType

SpecBadType == Init /\ [][BadTypeNext]_vars

(***************************************************************************)
(* The default list, serialized and given to deserialize as buffers of     *)
(* other lengths and with other capacity words.  The call is recorded as   *)
(* Call("deserialize", item size of the buffer's map, length, capacity     *)
(* word, ret).                                                             *)
(***************************************************************************)
\* the array a with len words and the capacity word cap
Damaged(a, len, cap) ==
  Wr([w |-> a.w, d |-> [i \in 0..(len - 1) |-> Rd(a, i)]], CAPACITY, cap)

DamagedOpts(g, isz, len, cap) ==
  IF isz = NODE_ITEM_SIZE THEN [serialize(g) EXCEPT !.nodes = Damaged(@, len, cap)]
  ELSE [serialize(g) EXCEPT !.edges = Damaged(@, len, cap)]

DamagedLengths(a, isz) ==
  {lengthOf(a) + d : d \in (0 - MaxDamage)..MaxDamage}
    \cup {getLength(c, isz) : c \in 0..MaxDamage}

DamagedCapacities(a) == {capacityOf(a)} \cup 0..MaxDamage

DeserializeDamagedOf(a, isz) ==
  \E len \in DamagedLengths(a, isz), cap \in DamagedCapacities(a) :
    last' = Call("deserialize", isz, len, cap,
                 deserialize(DamagedOpts(list, isz, len, cap)).ret)

DeserializeDamaged ==
  /\ ops < MaxDamagedOps
  /\ \/ DeserializeDamagedOf(list.nodes, NODE_ITEM_SIZE)
     \/ DeserializeDamagedOf(list.edges, EDGE_ITEM_SIZE)
  /\ ops' = ops + 1
  /\ UNCHANGED <<list, ids, order, adds, removes, shared, widths, graph>>

DamagedNext == AddNode \/ AddEdge \/ ResizeEdges \/ DeserializeDamaged

SpecDamaged == Init /\ [][DamagedNext]_vars

(***************************************************************************)
(* Lists constructed with a node capacity of 1..MaxNodeCapacity: addNode,  *)
(* and addEdge from the newest node and resizeEdges in between.            *)
(***************************************************************************)
CapacityInit ==
  /\ \E nodeCapacity \in 1..MaxNodeCapacity :
       list = NewList(nodeCapacity, MIN_CAPACITY, Uint32)
  /\ ids = <<>>
  /\ order = <<>>
  /\ adds = 0
  /\ removes = 0
  /\ last = Call("new", 0, 0, 0, "ok")
  /\ ops = 0
  /\ shared = NewShared
  /\ widths = NewWidths
  /\ graph = NewGraph

CapacityAddNode ==
  /\ Len(ids) < MaxCapacityNodes
  /\ LET r == addNode(list)
     IN  /\ list' = Settled(r.g)
         /\ ids' = IF r.ret = "ok" THEN Append(ids, r.id) ELSE ids
         /\ last' = Call("addNode", 0, 0, 0, r.ret)
  /\ UNCHANGED <<order, adds, removes, ops, shared, widths, graph>>

CapacityAddEdge ==
  /\ ops < MaxCapacityOps
  /\ ids # <<>>
  /\ \E from \in {ids[Len(ids)]}, to \in Minted, type \in Types :
       LET r == addEdge(list, from, to, type)
       IN  /\ list' = Settled(r.g)
           /\ order' = IF r.ret = "true" THEN Append(order, <<from, to, type>>) ELSE order
           /\ adds' = IF r.ret = "true" THEN adds + 1 ELSE adds
           /\ last' = Call("addEdge", from, to, type, r.ret)
  /\ ops' = ops + 1
  /\ UNCHANGED <<ids, removes, shared, widths, graph>>

CapacityResizeEdges ==
  /\ ops < MaxCapacityOps
  /\ \E size \in 0..MaxResize :
       LET r == resizeEdges(list, size)
       IN  /\ list' = Settled(r.g)
           /\ last' = Call("resizeEdges", size, 0, 0, r.ret)
  /\ ops' = ops + 1
  /\ UNCHANGED <<ids, order, adds, removes, shared, widths, graph>>

CapacityNext == CapacityAddNode \/ CapacityAddEdge \/ CapacityResizeEdges

SpecCapacity == CapacityInit /\ [][CapacityNext]_vars

(***************************************************************************)
(* A Graph built by new Graph(): graph is the Graph, ids the ids its       *)
(* addNode returned.                                                       *)
(***************************************************************************)
GraphCall(r, op, from, to, type) ==
  /\ graph' = [r.g EXCEPT !.adjacencyList = Settled(@)]
  /\ last' = Call(op, from, to, type, r.ret)

GraphIdle == UNCHANGED <<list, order, adds, removes, shared, widths>>

GraphAddNodeCall ==
  /\ Len(ids) < MaxGraphNodes
  /\ \E node \in 0..MaxNodeValue :
       /\ GraphCall(GraphAddNode(graph, node), "addNode", node, 0, 0)
       /\ ids' = Append(ids, GraphAddNode(graph, node).id)
  /\ UNCHANGED ops
  /\ GraphIdle

GraphSetRootNodeId ==
  /\ ops < MaxGraphOps
  /\ graph.rootNodeId = {}
  /\ \E id \in Minted :
       /\ graph' = [graph EXCEPT !.rootNodeId = {id}]
       /\ last' = Call("setRootNodeId", id, 0, 0, "ok")
  /\ ops' = ops + 1
  /\ UNCHANGED ids
  /\ GraphIdle

GraphAddEdgeCall ==
  /\ ops < MaxGraphOps
  /\ \E from \in Minted, to \in Minted, type \in Types :
       GraphCall(GraphAddEdge(graph, from, to, type), "addEdge", from, to, type)
  /\ ops' = ops + 1
  /\ UNCHANGED ids
  /\ GraphIdle

GraphRemoveEdgeCall ==
  /\ ops < MaxGraphOps
  /\ \E from \in Minted, to \in Minted, type \in Types :
       GraphCall(GraphRemoveEdge(graph, from, to, type), "removeEdge", from, to, type)
  /\ ops' = ops + 1
  /\ UNCHANGED ids
  /\ GraphIdle

GraphRemoveNodeCall ==
  /\ ops < MaxGraphOps
  /\ \E nodeId \in Minted :
       GraphCall(GraphRemoveNode(graph, nodeId), "removeNode", nodeId, 0, 0)
  /\ ops' = ops + 1
  /\ UNCHANGED ids
  /\ GraphIdle

GraphNext ==
  \/ GraphAddNodeCall
  \/ GraphSetRootNodeId
  \/ GraphAddEdgeCall
  \/ GraphRemoveEdgeCall
  \/ GraphRemoveNodeCall

SpecGraph == Init /\ [][GraphNext]_vars

(***************************************************************************)
(* The properties.                                                         *)
(***************************************************************************)
\* the triple of the last call
LastTriple == <<last.from, last.to, last.type>>

\* the nodes u of the live edges (v, u, t), in the order the edges were added
RECURSIVE TargetsIn(_, _, _)
TargetsIn(seq, v, t) ==
  IF seq = <<>> THEN <<>>
  ELSE IF Head(seq)[1] = v /\ Head(seq)[3] = t
       THEN <<Head(seq)[2]>> \o TargetsIn(Tail(seq), v, t)
  ELSE TargetsIn(Tail(seq), v, t)

NoDuplicates(seq) == \A i, j \in 1..Len(seq) : i # j => seq[i] # seq[j]

\* the arrays of types a query is given
TypeArrays == {<<>>, <<1>>, <<MaxType>>, <<1, MaxType>>, <<MaxType, 1>>}

\* C1: after any sequence of addNode, addEdge, removeEdge and resizeEdges
\* calls, for every triple of minted nodes and a type > 0 (the types used and
\* one never used), hasEdge is true exactly when the triple is a live edge.
HasEdgeIffLive ==
  \A from \in Minted, to \in Minted, type \in 1..(MaxType + 1) :
    hasEdge(list, from, to, Num(type)) <=> <<from, to, type>> \in Live

\* edges were added, the edge map has grown, and an edge was removed since
HasEdgeIffLiveWitness ==
  /\ removes >= 1
  /\ Live # {}
  /\ capacityOf(list.edges) > MIN_CAPACITY
  /\ last.op = "removeEdge" /\ last.ret = "true"

\* the 'Duplicate node detected' assertion of the stats getter fails
statsDuplicate(g) ==
  \E i, j \in 1..Len(getAllEdges(g)) : i < j /\ getAllEdges(g)[i] = getAllEdges(g)[j]

\* C2: after any mix of addEdge and removeEdge calls, getAllEdges yields
\* every live triple exactly once and no removed triple, so the stats getter
\* finds no duplicate.
AllEdgesAreLive ==
  /\ Range(getAllEdges(list)) = Live
  /\ Len(getAllEdges(list)) = Cardinality(Live)
  /\ ~statsDuplicate(list)

\* a tombstone lies in the buffer before a live edge
AllEdgesAreLiveWitness ==
  /\ deletesOf(list.edges) >= 1
  /\ countOf(list.edges) >= 2
  /\ typeOf(list.edges, addressableLimit(list.edges)) = 0

\* C3: at every step edges.count is the number of addEdge calls that
\* returned true minus the number of removeEdge calls that returned true,
\* also right after a rebuild of the edge map.
CountIsAddsMinusRemoves == countOf(list.edges) = adds - removes

\* an addEdge has just compacted the edge map: every call so far was an
\* addNode or a successful addEdge or removeEdge, edges were removed and no
\* tombstone is left
CountIsAddsMinusRemovesWitness ==
  /\ last.op = "addEdge" /\ last.ret = "true"
  /\ removes >= 2
  /\ deletesOf(list.edges) = 0
  /\ ops = Len(ids) + adds + removes

\* C4: the k-th addNode returns k-1 whatever calls come between, nextId is
\* the number of addNode calls made, and it never decreases.
NextIdCountsNodes ==
  /\ [](/\ ids = [i \in 1..Len(ids) |-> i - 1]
        /\ nextIdOf(list.nodes) = Len(ids))
  /\ [][nextIdOf(list'.nodes) >= nextIdOf(list.nodes)]_vars

\* the last addNode came after an addEdge and resized the node map
NextIdCountsNodesWitness ==
  /\ last.op = "addNode"
  /\ Len(ids) = MaxNodes
  /\ adds >= 1
  /\ capacityOf(list.nodes) > MIN_CAPACITY

\* C5: addEdge of a live triple returns false and leaves both buffers as
\* they were, word for word.
AddLiveEdgeChangesNothing ==
  [][(last'.op = "addEdge" /\ ops' = ops + 1
      /\ <<last'.from, last'.to, last'.type>> \in Live)
     => (last'.ret = "false" /\ list' = list)]_vars

\* a live triple was added again at a load where a new edge is rebuilt for
AddLiveEdgeChangesNothingWitness ==
  /\ last.op = "addEdge" /\ last.ret = "false"
  /\ LastTriple \in Live
  /\ LoadGT(getLoad(list.edges, countOf(list.edges) + 1 + deletesOf(list.edges)),
            LOAD_FACTOR_TENTHS)

\* C6: removeEdge of a triple that is not live returns false and leaves
\* both buffers as they were, word for word.
RemoveAbsentEdgeChangesNothing ==
  [][(last'.op = "removeEdge" /\ ops' = ops + 1
      /\ <<last'.from, last'.to, last'.type>> \notin Live)
     => (last'.ret = "false" /\ list' = list)]_vars

\* a triple that is not live was removed while an edge and a tombstone exist
RemoveAbsentEdgeChangesNothingWitness ==
  /\ last.op = "removeEdge" /\ last.ret = "false"
  /\ LastTriple \notin Live
  /\ deletesOf(list.edges) >= 1
  /\ countOf(list.edges) >= 1

\* C7: for every minted node v and type t, getNodeIdsConnectedFrom(v, t) is
\* the list of the nodes u with a live edge (v, u, t), in the order the
\* edges were added, and getNodeIdsConnectedTo(v, t) holds exactly the nodes
\* u with a live edge (u, v, t), each once.
ConnectedMatchesLive ==
  \A v \in Minted, t \in Types :
    /\ getNodeIdsConnectedFrom(list, v, Num(t)) = TargetsIn(order, v, t)
    /\ Range(getNodeIdsConnectedTo(list, v, Num(t)))
         = {u \in Minted : hasEdge(list, u, v, Num(t))}
    /\ NoDuplicates(getNodeIdsConnectedTo(list, v, Num(t)))

\* C8: with AllEdgeTypes getNodeIdsConnectedFrom(v, -1) holds exactly the
\* nodes u with a live edge (v, u, t) of some type t; with an array of types
\* exactly those with a live edge of a type in the array, and hasEdge with
\* the array is true exactly for these; each node appears once.
ConnectedByTypeSet ==
  \A v \in Minted :
    /\ Range(getNodeIdsConnectedFrom(list, v, Num(AllEdgeTypes)))
         = {u \in Minted : \E t \in Types : <<v, u, t>> \in Live}
    /\ NoDuplicates(getNodeIdsConnectedFrom(list, v, Num(AllEdgeTypes)))
    /\ \A ts \in TypeArrays :
         /\ Range(getNodeIdsConnectedFrom(list, v, Arr(ts)))
              = {u \in Minted : \E t \in Range(ts) : <<v, u, t>> \in Live}
         /\ NoDuplicates(getNodeIdsConnectedFrom(list, v, Arr(ts)))
         /\ \A u \in Minted :
              hasEdge(list, v, u, Arr(ts)) <=> \E t \in Range(ts) : <<v, u, t>> \in Live

\* the answers of the three queries of the scenario, once its edges are added
ScenarioAnswers(all) ==
  Len(order) = 3 =>
    /\ getNodeIdsConnectedFrom(list, order[1][1], Num(1)) = <<order[1][2], order[3][2]>>
    /\ getNodeIdsConnectedFrom(list, order[1][1], Num(2)) = <<order[2][2]>>
    /\ getNodeIdsConnectedFrom(list, order[1][1], Num(AllEdgeTypes)) = all

\* C9: after addEdge(a,b,1), addEdge(a,c,2), addEdge(a,d,1) on four distinct
\* nodes of a default list, getNodeIdsConnectedFrom(a, 1) is [b,d],
\* getNodeIdsConnectedFrom(a, 2) is [c] and getNodeIdsConnectedFrom(a,
\* AllEdgeTypes) is [b,d,c]: the targets of type 1, then those of type 2.
WildcardGroupsByType ==
  ScenarioAnswers(IF Len(order) = 3 THEN <<order[1][2], order[3][2], order[2][2]>> ELSE <<>>)

\* C9 as stated: getNodeIdsConnectedFrom(a, AllEdgeTypes) is [b,c,d]
WildcardInInsertionOrder ==
  ScenarioAnswers(IF Len(order) = 3 THEN <<order[1][2], order[2][2], order[3][2]>> ELSE <<>>)

\* the three edges of the scenario are added
WildcardGroupsByTypeWitness ==
  /\ Len(order) = 3
  /\ order[2][3] = 2
  /\ Cardinality({order[1][1], order[1][2], order[2][2], order[3][2]}) = 4
  /\ last.op = "addEdge" /\ last.ret = "true"

\* C10: getAllEdges yields the live edges in the order of their latest
\* successful addEdge; removed edges are skipped, a re-added edge is last,
\* and every rebuild of the edge map keeps the order.
AllEdgesInAddOrder == getAllEdges(list) = order

\* resizeEdges has rebuilt a map of several live edges after a removal
AllEdgesInAddOrderWitness ==
  /\ last.op = "resizeEdges" /\ last.ret = "true"
  /\ Len(order) >= 2
  /\ removes >= 1

\* C11, the inbound half: getInboundEdgesByType(v) holds exactly one entry
\* {from, type} per live edge (from, v, type), and hasInboundEdges(v) is true
\* exactly when some live edge ends in v.
InboundMatchesLive ==
  \A v \in Minted :
    /\ Range(getInboundEdgesByType(list, v))
         = {[from |-> e[1], type |-> e[3]] : e \in {x \in Live : x[2] = v}}
    /\ Len(getInboundEdgesByType(list, v)) = Cardinality({x \in Live : x[2] = v})
    /\ hasInboundEdges(list, v) <=> \E x \in Live : x[2] = v

\* C11: for every minted node v, getInboundEdgesByType(v) holds exactly one
\* entry per live edge into v, getOutboundEdgesByType(v) exactly one entry
\* {to, type} per live edge (v, to, type), and hasInboundEdges(v) is true
\* exactly when some live edge ends in v.
EdgesByTypeMatchLive ==
  /\ InboundMatchesLive
  /\ \A v \in Minted :
       /\ Range(getOutboundEdgesByType(list, v))
            = {[to |-> e[2], type |-> e[3]] : e \in {x \in Live : x[1] = v}}
       /\ Len(getOutboundEdgesByType(list, v)) = Cardinality({x \in Live : x[1] = v})

\* the type arguments of the queries: a type, or an array of types
QueryTypes == {Num(ty) : ty \in Types} \cup {Arr(ts) : ts \in TypeArrays}

\* every read operation answers on h as on g
SameReads(g, h) ==
  /\ getAllEdges(h) = getAllEdges(g)
  /\ countOf(h.edges) = countOf(g.edges) /\ deletesOf(h.edges) = deletesOf(g.edges)
  /\ countOf(h.nodes) = countOf(g.nodes) /\ nextIdOf(h.nodes) = nextIdOf(g.nodes)
  /\ capacityOf(h.nodes) = capacityOf(g.nodes) /\ capacityOf(h.edges) = capacityOf(g.edges)
  /\ \A v \in Minted :
       /\ hasInboundEdges(h, v) = hasInboundEdges(g, v)
       /\ getInboundEdgesByType(h, v) = getInboundEdgesByType(g, v)
       /\ getOutboundEdgesByType(h, v) = getOutboundEdgesByType(g, v)
       /\ \A t \in QueryTypes \cup {Num(AllEdgeTypes)} :
            /\ getNodeIdsConnectedFrom(h, v, t) = getNodeIdsConnectedFrom(g, v, t)
            /\ getNodeIdsConnectedTo(h, v, t) = getNodeIdsConnectedTo(g, v, t)
       /\ \A t \in QueryTypes, u \in Minted : hasEdge(h, v, u, t) = hasEdge(g, v, u, t)

\* the Graph around the list with root id root: node id v carries the value v
GraphAround(g, root) ==
  [nodes |-> [v \in Minted |-> v], adjacencyList |-> g, rootNodeId |-> root]

\* C12: H = deserialize(G.serialize()) answers every read operation as G
\* does and H.serialize() equals G.serialize() element for element; and
\* Graph.deserialize(g.serialize()).serialize() equals g.serialize().
RoundTripIsSame ==
  /\ deserialize(serialize(list)).ret = "ok"
  /\ SameReads(list, deserialize(serialize(list)).g)
  /\ serialize(deserialize(serialize(list)).g) = serialize(list)
  /\ \A root \in {{}} \cup {{v} : v \in Minted} :
       /\ GraphDeserialize(GraphSerialize(GraphAround(list, root))).ret = "ok"
       /\ GraphSerialize(GraphDeserialize(GraphSerialize(GraphAround(list, root))).g)
            = GraphSerialize(GraphAround(list, root))

\* the list holds several edges and a tombstone, and its node map has grown
RoundTripIsSameWitness ==
  /\ Len(order) >= 2
  /\ deletesOf(list.edges) >= 1
  /\ capacityOf(list.nodes) > MIN_CAPACITY
  /\ last.op \in {"addEdge", "removeEdge"}

\* the list a call c of holder who leaves behind, by the list it found
SharedOp(sh, who, c) ==
  IF c.op = "addEdge" THEN addEdge(Load(sh, who), c.from, c.to, c.type).g
  ELSE removeEdge(Load(sh, who), c.from, c.to, c.type).g

\* the step is an addEdge or removeEdge of holder who that returned true and
\* replaced no map
WritesInPlace(who) ==
  /\ shared'.by = who
  /\ last'.op \in {"addEdge", "removeEdge"}
  /\ last'.ret = "true"
  /\ SharedOp(shared, who, last').retired = <<>>

\* C13: serialize() and deserialize() do not copy: the arrays of s are G's
\* own arrays and H's maps are the arrays of s; a write through one holder
\* (a direct write into s, or an addEdge/removeEdge that replaces no map) is
\* what every holder of the same array reads and serializes afterwards.
HoldersShareBuffers ==
  [][/\ last'.op = "serialize" =>
          /\ shared'.s = [nodes |-> shared.G.nodes, edges |-> shared.G.edges]
          /\ shared'.heap = shared.heap
          /\ View(shared', "s") = serialize(Load(shared', "G"))
     /\ last'.op = "deserialize" =>
          /\ shared'.H.nodes = shared.s.nodes /\ shared'.H.edges = shared.s.edges
          /\ shared'.heap = shared.heap
          /\ serialize(Load(shared', "H")) = View(shared', "s")
     /\ \A who \in {"G", "H"}, other \in {"G", "s", "H"} :
          WritesInPlace(who) /\ shared[other].nodes # 0 =>
            /\ \A kind \in {"nodes", "edges"} :
                 shared[other][kind] = shared[who][kind] =>
                   View(shared', other)[kind] = SharedOp(shared, who, last')[kind]
            /\ other # "s" /\ shared[other].nodes = shared[who].nodes
                 /\ shared[other].edges = shared[who].edges =>
                 hasEdge(Load(shared', other), last'.from, last'.to, Num(last'.type))
                   = (last'.op = "addEdge")
     /\ shared'.by = "s" =>
          \A other \in {"G", "H"} :
            shared[other][last'.op] = shared.s[last'.op] =>
              /\ Rd(View(shared', other)[last'.op], NEXT_ID) = last'.type
              /\ last'.op = "nodes" => nextIdOf(Load(shared', other).nodes) = last'.type
              /\ last'.op = "edges" => deletesOf(Load(shared', other).edges) = last'.type
    ]_vars

\* H has added an edge into the arrays it shares with G and s, and G has it
HoldersShareBuffersWitness ==
  /\ shared.by = "H"
  /\ last.op = "addEdge" /\ last.ret = "true"
  /\ shared.H.nodes = shared.G.nodes /\ shared.H.edges = shared.G.edges
  /\ shared.s.nodes = shared.G.nodes /\ shared.s.edges = shared.G.edges
  /\ hasEdge(Load(shared, "G"), last.from, last.to, Num(last.type))

\* C14: a resize never writes into the arrays it replaces: after an
\* operation of a list, every array that is not (or no longer) one of the
\* list's two arrays holds what it held at the moment the resize started,
\* which for addNode is after the increment of nextId and for addEdge and
\* resizeEdges is before the call.
ReplacedBuffersAreKept ==
  [][\A who \in {"G", "H"} :
       shared'.by = who
         /\ last'.op \in {"addNode", "addEdge", "removeEdge", "resizeEdges"} =>
         \A r \in 1..Len(shared.heap) :
           r \notin {shared'[who].nodes, shared'[who].edges} =>
             shared'.heap[r] =
               IF last'.op = "addNode" /\ r = shared[who].nodes
               THEN getId(shared.heap[r])
               ELSE shared.heap[r]
    ]_vars

\* G has grown its edge map in an addEdge after s was made, and s still
\* refers to the smaller map
ReplacedBuffersAreKeptWitness ==
  /\ shared.by = "G"
  /\ last.op = "addEdge" /\ last.ret = "true"
  /\ shared.s.edges # 0 /\ shared.s.edges # shared.G.edges
  /\ capacityOf(View(shared, "G").edges) >= MAX_GROW_FACTOR
  /\ capacityOf(View(shared, "s").edges) < MAX_GROW_FACTOR
  /\ countOf(View(shared, "s").edges) + 1 = countOf(View(shared, "G").edges)

\* load <= tenths / 10 (false for NaN and Infinity)
LoadLE(load, tenths) ==
  IF load.c = 0 THEN FALSE
  ELSE 10 * load.n <= tenths * load.c * BUCKET_SIZE

\* edges.getLoad(count + 1 + deletes) and edges.getLoad(deletes)
TotalLoad(g) == getLoad(g.edges, countOf(g.edges) + 1 + deletesOf(g.edges))

DeletesLoad(g) == getLoad(g.edges, deletesOf(g.edges))

\* the triple of the call of this step
CallTriple == <<last'.from, last'.to, last'.type>>

\* C15: an addEdge of a triple that is not live, called when
\* (count + 1 + deletes) / (2 * capacity) > 0.7 and
\* deletes / (2 * capacity) <= 0.3, leaves an edge map of strictly larger
\* capacity (a longer array) with the new edge live; called when
\* (count + 1 + deletes) / (2 * capacity) <= 0.7 it leaves the capacity as it
\* was; the third distinct edge of a default list grows the edge array.
EdgeMapGrowsUnderLoad ==
  [][last'.op = "addEdge" /\ CallTriple \notin Live =>
       /\ LoadGT(TotalLoad(list), LOAD_FACTOR_TENTHS)
            /\ LoadLE(DeletesLoad(list), UNLOAD_FACTOR_TENTHS) =>
            /\ capacityOf(list'.edges) > capacityOf(list.edges)
            /\ lengthOf(serialize(list').edges) > lengthOf(serialize(list).edges)
            /\ last'.ret = "true"
            /\ CallTriple \in Live'
            /\ hasEdge(list', last'.from, last'.to, Num(last'.type))
       /\ LoadLE(TotalLoad(list), LOAD_FACTOR_TENTHS) =>
            capacityOf(list'.edges) = capacityOf(list.edges)
       /\ adds = 2 /\ removes = 0 /\ ops = Len(ids) + 2 =>
            lengthOf(serialize(list').edges) > getLength(MIN_CAPACITY, EDGE_ITEM_SIZE)
    ]_vars

\* the third distinct edge of a default list has been added, and the edge
\* map has grown
EdgeMapGrowsUnderLoadWitness ==
  /\ last.op = "addEdge" /\ last.ret = "true"
  /\ adds = 3 /\ removes = 0 /\ ops = Len(ids) + 3
  /\ capacityOf(list.edges) > MIN_CAPACITY

\* C16: an addEdge of a triple that is not live, called on a list of edge
\* capacity >= 2 when (count + 1 + deletes) / (2 * capacity) > 0.7 and
\* deletes / (2 * capacity) > 0.3, compacts: the edge capacity afterwards is
\* at most the capacity before, deletes is 0, and the live edges are the
\* edges that were live and the new one.
CompactionKeepsLiveEdges ==
  [][/\ last'.op = "addEdge" /\ CallTriple \notin Live
     /\ capacityOf(list.edges) >= MIN_CAPACITY
     /\ LoadGT(TotalLoad(list), LOAD_FACTOR_TENTHS)
     /\ LoadGT(DeletesLoad(list), UNLOAD_FACTOR_TENTHS)
     => /\ capacityOf(list'.edges) <= capacityOf(list.edges)
        /\ deletesOf(list'.edges) = 0
        /\ last'.ret = "true"
        /\ Range(getAllEdges(list')) = Live \cup {CallTriple}
        /\ Len(getAllEdges(list')) = Cardinality(Live) + 1
        /\ Live' = Live \cup {CallTriple}
    ]_vars

\* two edges were removed, and the addEdge after them has rebuilt the edge
\* map without the tombstones and with the two edges that were live
CompactionKeepsLiveEdgesWitness ==
  /\ last.op = "addEdge" /\ last.ret = "true"
  /\ removes = 2
  /\ deletesOf(list.edges) = 0
  /\ countOf(list.edges) = 3
  /\ capacityOf(list.edges) = MaxChurnCapacity

\* hasEdge, the neighbourhood queries and getAllEdges answer on h as on g
SameAnswers(g, h) ==
  /\ getAllEdges(h) = getAllEdges(g)
  /\ \A v \in Minted :
       /\ hasInboundEdges(h, v) = hasInboundEdges(g, v)
       /\ getInboundEdgesByType(h, v) = getInboundEdgesByType(g, v)
       /\ getOutboundEdgesByType(h, v) = getOutboundEdgesByType(g, v)
       /\ \A t \in QueryTypes \cup {Num(AllEdgeTypes)} :
            /\ getNodeIdsConnectedFrom(h, v, t) = getNodeIdsConnectedFrom(g, v, t)
            /\ getNodeIdsConnectedTo(h, v, t) = getNodeIdsConnectedTo(g, v, t)
       /\ \A t \in QueryTypes, u \in Minted : hasEdge(h, v, u, t) = hasEdge(g, v, u, t)

\* an address moved by delta; null stays null
Shifted(v, delta) == IF v = 0 THEN 0 ELSE v + delta

\* the node map new holds the bucket heads and the records of old, every
\* head and every next pointer moved by delta and the other fields as they
\* were; the buckets old does not have are empty
NodesShifted(old, new, delta) ==
  /\ \A h \in 0..(capacityOf(new) - 1) :
       head(new, h) = IF h < capacityOf(old) THEN Shifted(head(old, h), delta) ELSE 0
  /\ \A k \in 0..(countOf(old) - 1) :
       /\ next(new, NodeGetNextAddress(old) - (k + 1) * NODE_ITEM_SIZE + delta)
            = Shifted(next(old, NodeGetNextAddress(old) - (k + 1) * NODE_ITEM_SIZE), delta)
       /\ \A f \in 1..(NODE_ITEM_SIZE - 1) :
            Rd(new, NodeGetNextAddress(old) - (k + 1) * NODE_ITEM_SIZE + delta + f)
              = Rd(old, NodeGetNextAddress(old) - (k + 1) * NODE_ITEM_SIZE + f)

\* C17: an addNode after whose increment of nextId the node load exceeds 0.7
\* leaves a node map of twice the capacity with the same count and the
\* incremented nextId, every bucket head and next pointer moved by the
\* capacity difference, the edge map untouched and every query answering as
\* before the call.
NodeMapDoubles ==
  [][last'.op = "addNode" /\ NodeLoadGT(getId(list.nodes), LOAD_FACTOR_TENTHS) =>
       /\ last'.ret = "ok"
       /\ capacityOf(list'.nodes) = 2 * capacityOf(list.nodes)
       /\ countOf(list'.nodes) = countOf(list.nodes)
       /\ nextIdOf(list'.nodes) = nextIdOf(list.nodes) + 1
       /\ NodesShifted(list.nodes, list'.nodes, capacityOf(list.nodes))
       /\ list'.edges = list.edges
       /\ SameAnswers(list, list')
    ]_vars

\* the second addNode has doubled a node map that holds chained records
NodeMapDoublesWitness ==
  /\ last.op = "addNode" /\ last.ret = "ok"
  /\ Len(ids) = 2
  /\ capacityOf(list.nodes) = 2 * MIN_CAPACITY
  /\ countOf(list.nodes) >= 3
  /\ \E v \in Minted : head(list.nodes, v) # 0 /\ next(list.nodes, head(list.nodes, v)) # 0
  /\ Len(order) >= 2

\* array.byteLength
byteLength(a) == lengthOf(a) * (a.w \div Uint8)

\* C18: for a list constructed with typedArray T, in every state reached by
\* addNode/addEdge/removeEdge serialize().nodes and serialize().edges are
\* arrays of type T, of (capacity + 3 + itemSize * 2 * capacity) elements of
\* T.BYTES_PER_ELEMENT bytes each.
BuffersHaveListType ==
  /\ serialize(list).nodes.w = list.typedArray
  /\ serialize(list).edges.w = list.typedArray
  /\ byteLength(serialize(list).nodes)
       = getLength(capacityOf(list.nodes), NODE_ITEM_SIZE) * (list.typedArray \div Uint8)
  /\ byteLength(serialize(list).edges)
       = getLength(capacityOf(list.edges), EDGE_ITEM_SIZE) * (list.typedArray \div Uint8)

\* C19: given the same calls, the 8-bit, the 16-bit and the 32-bit list
\* return the same values and answer every query alike, and hold the same
\* capacities, counts and ids: nothing stored is cut to the element width.
WidthsAgree ==
  \A w \in Widths :
    /\ widths.rets[w] = widths.rets[Uint32]
    /\ capacityOf(widths.lists[w].nodes) = capacityOf(widths.lists[Uint32].nodes)
    /\ capacityOf(widths.lists[w].edges) = capacityOf(widths.lists[Uint32].edges)
    /\ countOf(widths.lists[w].nodes) = countOf(widths.lists[Uint32].nodes)
    /\ countOf(widths.lists[w].edges) = countOf(widths.lists[Uint32].edges)
    /\ nextIdOf(widths.lists[w].nodes) = nextIdOf(widths.lists[Uint32].nodes)
    /\ SameAnswers(widths.lists[Uint32], widths.lists[w])

\* C20: addEdge with type <= 0 fails with an error and leaves the list as it
\* was: no edge becomes live, no node record is created, no map is replaced
\* and both arrays are word for word as before.
BadTypeChangesNothing ==
  [][last'.op = "addEdge" /\ last'.type <= 0 =>
       /\ last'.ret = "throw"
       /\ list' = list
       /\ serialize(list') = serialize(list)
       /\ Live' = Live
       /\ getAllEdges(list') = getAllEdges(list)
    ]_vars

\* an addEdge with a type that is not positive has failed on a list that
\* holds an edge
BadTypeChangesNothingWitness ==
  /\ last.op = "addEdge" /\ last.type <= 0 /\ last.ret = "throw"
  /\ countOf(list.edges) >= 1
  /\ Len(ids) = 2

\* the triple x is in the neighbourhood lists of its own type
ListedOut(g, x) == x[2] \in Range(getNodeIdsConnectedFrom(g, x[1], Num(x[3])))

ListedIn(g, x) == x[1] \in Range(getNodeIdsConnectedTo(g, x[2], Num(x[3])))

\* C21: edges are keyed by the whole triple: a successful addEdge or
\* removeEdge of one triple changes, for no other triple, whether it is live
\* or whether it is in the neighbourhood lists of its own type; a live
\* self-loop (a, a, t) is in a's inbound and in a's outbound list of type t.
TriplesAreIndependent ==
  [][last'.op \in {"addEdge", "removeEdge"} /\ last'.ret = "true" =>
       /\ \A x \in (Minted \X Minted \X Types) \ {CallTriple} :
            /\ (x \in Live') = (x \in Live)
            /\ hasEdge(list', x[1], x[2], Num(x[3])) = hasEdge(list, x[1], x[2], Num(x[3]))
            /\ ListedOut(list', x) = ListedOut(list, x)
            /\ ListedIn(list', x) = ListedIn(list, x)
       /\ \A a \in Minted, t \in Types :
            <<a, a, t>> \in Live' =>
              ListedOut(list', <<a, a, t>>) /\ ListedIn(list', <<a, a, t>>)
    ]_vars

\* the length of the array differs from
\* capacity + headerSize + itemSize * 2 * capacity, capacity its first word
LengthDiffers(a, isz) ==
  lengthOf(a) # Rd(a, 0) + HEADER_SIZE + isz * 2 * Rd(a, 0)

\* C22: building the maps of a list from existing buffers fails the
\* 'Data appears corrupt.' assertion exactly when the length of the node
\* buffer or of the edge buffer differs from
\* capacity + headerSize + itemSize * 2 * capacity, capacity the first word
\* of that buffer; otherwise it succeeds.
CorruptIffLengthDiffers ==
  [][last'.op = "deserialize" =>
       ((last'.ret = "throw") <=>
          \/ LengthDiffers(DamagedOpts(list, last'.from, last'.to, last'.type).nodes,
                           NODE_ITEM_SIZE)
          \/ LengthDiffers(DamagedOpts(list, last'.from, last'.to, last'.type).edges,
                           EDGE_ITEM_SIZE))
       /\ last'.ret \in {"ok", "throw"}
    ]_vars

\* deserialize has failed on an edge buffer one word longer than the
\* serialized one, with its capacity word untouched, of a list with an edge
CorruptIffLengthDiffersWitness ==
  /\ last.op = "deserialize" /\ last.ret = "throw"
  /\ last.from = EDGE_ITEM_SIZE
  /\ last.to = lengthOf(list.edges) + 1
  /\ last.type = capacityOf(list.edges)
  /\ countOf(list.edges) >= 1

\* the live edges of a Graph
GraphEdges(gr) == Range(getAllEdges(gr.adjacencyList))

\* no edge of the Graph, by getAllEdges or by hasEdge, is from or to nodeId
NoEdgeAt(gr, nodeId) ==
  /\ \A e \in GraphEdges(gr) : e[1] # nodeId /\ e[2] # nodeId
  /\ \A other \in Minted, t \in Types :
       /\ ~hasEdge(gr.adjacencyList, nodeId, other, Num(t))
       /\ ~hasEdge(gr.adjacencyList, other, nodeId, Num(t))

\* C23: Graph.removeNode(n) of a node of the graph returns true and leaves
\* the graph without the node and without any edge from or to it, of any
\* type, self-loops included; for a node not in the graph it returns false
\* and changes nothing.
RemoveNodeRemovesItsEdges ==
  [][last'.op = "removeNode" =>
       IF hasNode(graph, last'.from)
       THEN /\ last'.ret = "true"
            /\ ~hasNode(graph', last'.from)
            /\ NoEdgeAt(graph', last'.from)
       ELSE /\ last'.ret = "false"
            /\ graph' = graph
    ]_vars

\* two edges were added and the removal of a node has removed both
RemoveNodeRemovesItsEdgesWitness ==
  /\ last.op = "removeNode" /\ last.ret = "true"
  /\ ~hasNode(graph, last.from)
  /\ Len(ids) = MaxGraphNodes
  /\ countOf(graph.adjacencyList.edges) = 0
  /\ deletesOf(graph.adjacencyList.edges) = 2

\* the nodes that pruning removes, given the edges E that are left and the
\* nodes R removed so far: a target of an edge from a removed node goes
\* when all its inbound edges come from removed nodes
RECURSIVE Pruned(_, _)
Pruned(E, R) ==
  IF {e[2] : e \in {x \in E : x[1] \in R /\ \A y \in E : y[2] = x[2] => y[1] \in R}}
       \subseteq R
  THEN R
  ELSE Pruned(E, R \cup {e[2] : e \in {x \in E : x[1] \in R
                                                  /\ \A y \in E : y[2] = x[2] => y[1] \in R}})

\* the node to goes when no edge of E is inbound to it
PrunedFrom(E, to) == Pruned(E, IF \E e \in E : e[2] = to THEN {} ELSE {to})

\* C24: on a Graph with no root node, removeEdge(from, to, type) of a live
\* edge leaves node to, with its outbound edges, in the graph when to still
\* has an inbound edge of any type; otherwise it removes to and its outbound
\* edges, and prunes the targets of those edges in the same way; no other
\* node and no other edge is touched.
RemoveEdgePrunesOrphans ==
  [][/\ last'.op = "removeEdge"
     /\ graph.rootNodeId = {}
     /\ CallTriple \in GraphEdges(graph)
     => /\ last'.ret = "true"
        /\ DOMAIN graph'.nodes
             = DOMAIN graph.nodes \ PrunedFrom(GraphEdges(graph) \ {CallTriple}, last'.to)
        /\ \A id \in DOMAIN graph'.nodes : graph'.nodes[id] = graph.nodes[id]
        /\ GraphEdges(graph')
             = {e \in GraphEdges(graph) \ {CallTriple} :
                  /\ e[1] \notin PrunedFrom(GraphEdges(graph) \ {CallTriple}, last'.to)
                  /\ e[2] \notin PrunedFrom(GraphEdges(graph) \ {CallTriple}, last'.to)}
        /\ \A e \in Minted \X Minted \X Types :
             hasEdge(graph'.adjacencyList, e[1], e[2], Num(e[3])) = (e \in GraphEdges(graph'))
        /\ graph'.rootNodeId = {}
    ]_vars

\* removeEdge has removed the first edge of a chain of two and with it the
\* two nodes after it
RemoveEdgePrunesOrphansWitness ==
  /\ last.op = "removeEdge" /\ last.ret = "true"
  /\ graph.rootNodeId = {}
  /\ Len(ids) = MaxGraphNodes
  /\ DOMAIN graph.nodes = {last.from}
  /\ last.from # last.to
  /\ deletesOf(graph.adjacencyList.edges) = 2

\* removeEdge has removed one of two edges into a node, which stays
RemoveEdgeKeepsWitness ==
  /\ last.op = "removeEdge" /\ last.ret = "true"
  /\ graph.rootNodeId = {}
  /\ hasNode(graph, last.to)
  /\ hasInboundEdges(graph.adjacencyList, last.to)
  /\ last.from # last.to

\* the records of a map fill its item region up to the next address, which
\* is within the array: no record was written past the end
RegionHolds(a, isz, used) ==
  /\ used <= BUCKET_SIZE * capacityOf(a)
  /\ addressableLimit(a) + used * isz <= lengthOf(a)
  /\ Len(iterator(a, isz)) = countOf(a)
  /\ \A i \in 1..Len(iterator(a, isz)) : iterator(a, isz)[i] + isz <= lengthOf(a)

\* C25: neither item region overflows: count + deletes <= 2 * capacity for
\* the edges, count <= 2 * capacity for the nodes, the next address of each
\* map is within its array, so that every record written so far, at the
\* next address of its moment, lies within the array with all its words;
\* an addEdge leaves the node capacity as it was or doubles it once.
RegionsNeverOverflow ==
  /\ [](/\ RegionHolds(list.edges, EDGE_ITEM_SIZE, countOf(list.edges) + deletesOf(list.edges))
        /\ EdgeGetNextAddress(list.edges) <= lengthOf(list.edges)
        /\ RegionHolds(list.nodes, NODE_ITEM_SIZE, countOf(list.nodes))
        /\ NodeGetNextAddress(list.nodes) <= lengthOf(list.nodes))
  /\ [][last'.op = "addEdge" =>
          /\ last'.ret # "throw"
          /\ capacityOf(list'.nodes)
               \in {capacityOf(list.nodes), 2 * capacityOf(list.nodes)}
       ]_vars

\* an addEdge has written node records that fill the item region of the
\* node map to its last word
RegionsNeverOverflowWitness ==
  /\ last.op = "addEdge" /\ last.ret = "true"
  /\ countOf(list.nodes) = BUCKET_SIZE * capacityOf(list.nodes)
  /\ NodeGetNextAddress(list.nodes) = lengthOf(list.nodes)

\* an addEdge has doubled the node map: addNode alone leaves two nodes a
\* capacity of 4
NodeMapDoubledByAddEdge ==
  /\ last.op = "addEdge" /\ last.ret = "true"
  /\ nextIdOf(list.nodes) = 2
  /\ capacityOf(list.nodes) = 8

\* an addEdge has written an edge record after the record of a deleted edge
EdgeWrittenAfterDeleted ==
  /\ last.op = "addEdge" /\ last.ret = "true"
  /\ countOf(list.edges) = 1
  /\ deletesOf(list.edges) = 1

\* C26: node records are bucketed by the node id itself: in every state of
\* a list constructed with a node capacity of 1 or more nextId is at most
\* 0.7 * capacity, every minted id is smaller than the node capacity, and
\* HEADER_SIZE + id is a word of the bucket table, below the item region; an
\* addNode leaves the capacity or grows it once, a resizeEdges leaves it.
IdsAddressBuckets ==
  /\ [](/\ 10 * nextIdOf(list.nodes) <= LOAD_FACTOR_TENTHS * capacityOf(list.nodes)
        /\ Minted = 0..(nextIdOf(list.nodes) - 1)
        /\ \A id \in Minted :
             /\ id < capacityOf(list.nodes)
             /\ HEADER_SIZE + id >= HEADER_SIZE
             /\ HEADER_SIZE + id < addressableLimit(list.nodes)
             /\ HEADER_SIZE + id < lengthOf(list.nodes)
        /\ last.ret # "throw")
  /\ [][/\ (last'.op = "addNode" =>
              capacityOf(list'.nodes)
                \in {capacityOf(list.nodes),
                     increaseNodeCapacity(capacityOf(list.nodes)).v})
         /\ (last'.op = "resizeEdges" =>
              /\ capacityOf(list'.nodes) = capacityOf(list.nodes)
              /\ nextIdOf(list'.nodes) = nextIdOf(list.nodes))
       ]_vars

\* the third addNode of a list constructed with node capacity 1 has grown
\* the node map for the third time, and the newest node has an edge
IdsAddressBucketsWitness ==
  /\ last.op = "addEdge" /\ last.ret = "true"
  /\ nextIdOf(list.nodes) = 3
  /\ capacityOf(list.nodes) = 8
  /\ last.from = 2
  /\ head(list.nodes, 2) >= addressableLimit(list.nodes)

\* the addresses of the item region of a map
Slots(a, isz) ==
  {addressableLimit(a) + k * isz : k \in 0..(BUCKET_SIZE * capacityOf(a) - 1)}

\* the chain from address on, by the next fields; it is given up when it is
\* longer than the item region has records
RECURSIVE ChainOf(_, _, _)
ChainOf(a, address, acc) ==
  IF address = 0 \/ Len(acc) > BUCKET_SIZE * capacityOf(a) THEN acc
  ELSE ChainOf(a, next(a, address), Append(acc, address))

BucketChain(a, h) == ChainOf(a, head(a, h), <<>>)

Times(seq, x) == Cardinality({i \in 1..Len(seq) : seq[i] = x})

TripleAt(a, e) == <<fromOf(a, e), toOf(a, e), typeOf(a, e)>>

RECURSIVE ChainsTotal(_, _)
ChainsTotal(a, h) ==
  IF h >= capacityOf(a) THEN 0 ELSE Len(BucketChain(a, h)) + ChainsTotal(a, h + 1)

\* the chain of bucket h ends, repeats no record, and holds live records of
\* that bucket only
ChainHolds(a, h) ==
  /\ Len(BucketChain(a, h)) <= BUCKET_SIZE * capacityOf(a)
  /\ \A e \in Range(BucketChain(a, h)) :
       /\ Times(BucketChain(a, h), e) = 1
       /\ e \in Slots(a, EDGE_ITEM_SIZE)
       /\ TripleAt(a, e) \in Live
       /\ hash(a, fromOf(a, e), toOf(a, e), typeOf(a, e)) = h

\* the live edge x has one record, once on the chain of its bucket
OnItsChain(a, x) ==
  /\ Cardinality({e \in Slots(a, EDGE_ITEM_SIZE) : TripleAt(a, e) = x}) = 1
  /\ \A e \in Slots(a, EDGE_ITEM_SIZE) :
       TripleAt(a, e) = x => Times(BucketChain(a, hash(a, x[1], x[2], x[3])), e) = 1

\* C27: every live edge has one record, which lies exactly once on the chain
\* of bucket hash(from, to, type) of the current capacity; every chain ends,
\* repeats no record and holds live records only; a record without a type
\* (removed, or never written) is on no chain and has next 0; the chains
\* hold count records together.
BucketChainsHold ==
  /\ \A h \in 0..(capacityOf(list.edges) - 1) : ChainHolds(list.edges, h)
  /\ \A x \in Live : OnItsChain(list.edges, x)
  /\ \A e \in Slots(list.edges, EDGE_ITEM_SIZE) :
       typeOf(list.edges, e) = 0 =>
         /\ next(list.edges, e) = 0
         /\ \A h \in 0..(capacityOf(list.edges) - 1) :
              e \notin Range(BucketChain(list.edges, h))
  /\ ChainsTotal(list.edges, 0) = countOf(list.edges)
  /\ countOf(list.edges) = Cardinality(Live)

\* a bucket holds a chain of two live edges, after an edge was removed
BucketChainsHoldWitness ==
  /\ \E h \in 0..(capacityOf(list.edges) - 1) : Len(BucketChain(list.edges, h)) >= 2
  /\ deletesOf(list.edges) >= 1
  /\ last.op = "removeEdge" /\ last.ret = "true"

\* the edges from edge on, by the nextIn fields; given up when longer than
\* the edge map has records
RECURSIVE InListFrom(_, _, _)
InListFrom(a, edge, acc) ==
  IF edge = 0 \/ Len(acc) > BUCKET_SIZE * capacityOf(a) THEN acc
  ELSE InListFrom(a, nextIn(a, edge), Append(acc, edge))

\* the same by the nextOut fields
RECURSIVE OutListFrom(_, _, _)
OutListFrom(a, edge, acc) ==
  IF edge = 0 \/ Len(acc) > BUCKET_SIZE * capacityOf(a) THEN acc
  ELSE OutListFrom(a, nextOut(a, edge), Append(acc, edge))

InListOf(g, node) == InListFrom(g.edges, firstIn(g.nodes, node), <<>>)

OutListOf(g, node) == OutListFrom(g.edges, firstOut(g.nodes, node), <<>>)

\* the in list l of the node record of (id, type) holds the live edges
\* into id of that type, once each, and is doubly linked from firstIn to
\* lastIn
InListHolds(g, node, id, l) ==
  /\ Len(l) <= BUCKET_SIZE * capacityOf(g.edges)
  /\ \A i, j \in 1..Len(l) : l[i] = l[j] => i = j
  /\ {TripleAt(g.edges, l[i]) : i \in 1..Len(l)}
       = {x \in Live : x[2] = id /\ x[3] = typeOf(g.nodes, node)}
  /\ (firstIn(g.nodes, node) = 0) = (lastIn(g.nodes, node) = 0)
  /\ l # <<>> =>
       /\ l[Len(l)] = lastIn(g.nodes, node)
       /\ prevIn(g.edges, l[1]) = 0
       /\ nextIn(g.edges, l[Len(l)]) = 0
       /\ \A i \in 1..(Len(l) - 1) : prevIn(g.edges, l[i + 1]) = l[i]

\* the same for the out list
OutListHolds(g, node, id, l) ==
  /\ Len(l) <= BUCKET_SIZE * capacityOf(g.edges)
  /\ \A i, j \in 1..Len(l) : l[i] = l[j] => i = j
  /\ {TripleAt(g.edges, l[i]) : i \in 1..Len(l)}
       = {x \in Live : x[1] = id /\ x[3] = typeOf(g.nodes, node)}
  /\ (firstOut(g.nodes, node) = 0) = (lastOut(g.nodes, node) = 0)
  /\ l # <<>> =>
       /\ l[Len(l)] = lastOut(g.nodes, node)
       /\ prevOut(g.edges, l[1]) = 0
       /\ nextOut(g.edges, l[Len(l)]) = 0
       /\ \A i \in 1..(Len(l) - 1) : prevOut(g.edges, l[i + 1]) = l[i]

\* the node records of id: the chain of its bucket in the node map
RecordsOf(g, id) == Range(ChainOf(g.nodes, head(g.nodes, id), <<>>))

\* C28: for every node record of (id, type), the list from firstIn by nextIn
\* holds exactly the live edges into id of that type, ends at lastIn, has no
\* cycle and is consistently doubly linked, firstIn being 0 exactly when
\* lastIn is; the same for firstOut, nextOut, prevOut, lastOut and the live
\* edges from id.
NodeListsHold ==
  \A id \in Minted : \A node \in RecordsOf(list, id) :
    /\ InListHolds(list, node, id, InListOf(list, node))
    /\ OutListHolds(list, node, id, OutListOf(list, node))

\* the types of the node records of id, in the order of its chain
TypesOf(g, id) ==
  [i \in 1..Len(ChainOf(g.nodes, head(g.nodes, id), <<>>)) |->
     typeOf(g.nodes, ChainOf(g.nodes, head(g.nodes, id), <<>>)[i])]

\* C29: there is at most one node record per (node id, type); the node
\* records (from, type) and (to, type) of every live edge exist; and no
\* removeEdge of minted ids fails a lookup that must succeed.
OneRecordPerNodeType ==
  /\ \A id \in Minted, t \in Types : Times(TypesOf(list, id), t) <= 1
  /\ \A x \in Live :
       /\ NodeAddressOf(list.nodes, x[1], x[3]) # 0
       /\ NodeAddressOf(list.nodes, x[2], x[3]) # 0
  /\ last.op = "removeEdge" => last.ret # "throw"

\* every word of the record at e is 0
AllZero(a, e) == \A k \in 0..(EDGE_ITEM_SIZE - 1) : Rd(a, e + k) = 0

\* the records below the next address that are all zero: the deleted ones
Tombstones(a) ==
  {e \in Slots(a, EDGE_ITEM_SIZE) : e < EdgeGetNextAddress(a) /\ AllZero(a, e)}

\* the step is a call that rebuilt the edge map: a resizeEdges, or an
\* addEdge that resized
EdgeRebuilt ==
  \/ last'.op = "resizeEdges"
  \/ /\ last'.op = "addEdge" /\ last'.ret = "true"
     /\ RetiredOf(addEdge(list, last'.from, last'.to, last'.type).g, "edges") # <<>>

\* the address of the edge of the call before the call
CallEdge ==
  EdgeAddressOf(list.edges, hash(list.edges, last'.from, last'.to, last'.type),
                last'.from, last'.to, last'.type)

\* C30: a successful removeEdge leaves every word of the edge's record 0,
\* count one less and deletes one more; while the edge map is not rebuilt a
\* deleted record stays all zero, and an addEdge writes its record at the
\* next address, above every record written since the last rebuild; after a
\* rebuild deletes is 0.
TombstonesStay ==
  [][/\ (last'.op = "removeEdge" /\ last'.ret = "true" =>
           /\ CallEdge \in Slots(list.edges, EDGE_ITEM_SIZE)
           /\ TripleAt(list.edges, CallEdge) = CallTriple
           /\ AllZero(list'.edges, CallEdge)
           /\ countOf(list'.edges) = countOf(list.edges) - 1
           /\ deletesOf(list'.edges) = deletesOf(list.edges) + 1
           /\ Tombstones(list'.edges) = Tombstones(list.edges) \cup {CallEdge})
     /\ (EdgeRebuilt => deletesOf(list'.edges) = 0 /\ Tombstones(list'.edges) = {})
     /\ (~EdgeRebuilt => Tombstones(list.edges) \subseteq Tombstones(list'.edges))
     /\ (last'.op = "addEdge" /\ last'.ret = "true" /\ ~EdgeRebuilt =>
           /\ TripleAt(list'.edges, EdgeGetNextAddress(list.edges)) = CallTriple
           /\ \A e \in Slots(list.edges, EDGE_ITEM_SIZE) :
                e >= EdgeGetNextAddress(list.edges) => AllZero(list.edges, e)
           /\ \A e \in Slots(list.edges, EDGE_ITEM_SIZE) :
                e # EdgeGetNextAddress(list.edges) =>
                  TripleAt(list'.edges, e) = TripleAt(list.edges, e))
    ]_vars

\* an addEdge without a rebuild has written its record behind a deleted one
TombstonesStayWitness ==
  /\ last.op = "addEdge" /\ last.ret = "true"
  /\ deletesOf(list.edges) >= 1
  /\ Tombstones(list.edges) # {}
  /\ \A e \in Tombstones(list.edges) :
       \E f \in Slots(list.edges, EDGE_ITEM_SIZE) :
         f > e /\ TripleAt(list.edges, f) = LastTriple

\* a removeEdge has removed an edge with a neighbour in its in list
TombstoneHadLinksWitness ==
  /\ last.op = "removeEdge" /\ last.ret = "true"
  /\ \E x \in Live : x[2] = last.to /\ x[3] = last.type
  /\ Tombstones(list.edges) # {}


(***************************************************************************)
(* Rebuilds, lazy node records, unminted ids, capacities                    *)
(***************************************************************************)
\* the call of this step was resizeEdges
ResizeStep == last'.op = "resizeEdges"

\* C31: resizeEdges(n), for every n and also an n too small for the live
\* edges, leaves the live edges, their getAllEdges order, every answer of
\* the neighbourhood queries and nextId as they were, sets deletes to 0 and
\* does not fail its "Edge mismatch" assertion
ResizeEdgesKeepsAnswers ==
  [][ResizeStep =>
       /\ last'.ret = "true"
       /\ getAllEdges(list') = getAllEdges(list)
       /\ Range(getAllEdges(list')) = Live
       /\ SameAnswers(list, list')
       /\ nextIdOf(list'.nodes) = nextIdOf(list.nodes)
       /\ deletesOf(list'.edges) = 0]_vars

(***************************************************************************)
(* The churn of SpecChurn with resizeEdges callable between the edge       *)
(* calls, for every requested size from 0 on.                              *)
(***************************************************************************)
RebuildEdges ==
  /\ last.op \in {"addEdge", "removeEdge"}
  /\ adds + removes >= MaxChurnOps - MaxRebuildTail
  /\ \E size \in 0..MaxChurnCapacity :
       LET r == resizeEdges(list, size)
       IN  /\ list' = Settled(r.g)
           /\ last' = Call("resizeEdges", size, 0, 0, r.ret)
  /\ ops' = ops + 1
  /\ UNCHANGED <<ids, order, adds, removes, shared, widths, graph>>

RebuildNext ==
  ChurnAddNode \/ ChurnResizeEdges \/ ChurnAddEdge \/ ChurnRemoveEdge \/ RebuildEdges

SpecRebuild == Init /\ [][RebuildNext]_vars

\* no node has two records of one type
SingleRecords(g) ==
  \A id \in Minted, t \in Types : Times(TypesOf(g, id), t) <= 1

\* C31, for the lists in which no (node, type) has a second record: what
\* ResizeEdgesKeepsAnswers says of every resizeEdges
ResizeEdgesKeepsSingleAnswers ==
  [][ResizeStep /\ SingleRecords(list) =>
       /\ last'.ret = "true"
       /\ getAllEdges(list') = getAllEdges(list)
       /\ SameAnswers(list, list')]_vars

\* the (id, type) pairs at an end of an edge of E
IncidentPairs(E) == {<<e[1], e[3]>> : e \in E} \cup {<<e[2], e[3]>> : e \in E}

\* the pairs at an end of the edge of this step's call that have no record
MissingPairs ==
  {p \in IncidentPairs({CallTriple}) : NodeAddressOf(list.nodes, p[1], p[2]) = 0}

\* C32: node records are created only by addEdge: addNode and removeEdge
\* never change nodes.count; an addEdge that returns true without a rebuild
\* adds one record for each of (to, type) and (from, type) that had none;
\* nodes.count decreases only in an edge rebuild, after which it is the
\* number of distinct (id, type) pairs at an end of a live edge
NodeRecordsAreLazy ==
  [][/\ (last'.op \in {"addNode", "removeEdge"} =>
           countOf(list'.nodes) = countOf(list.nodes))
     /\ (last'.op = "addEdge" /\ last'.ret = "true" /\ ~EdgeRebuilt =>
           countOf(list'.nodes) = countOf(list.nodes) + Cardinality(MissingPairs))
     /\ (last'.op = "addEdge" /\ last'.ret # "true" =>
           countOf(list'.nodes) = countOf(list.nodes))
     /\ (countOf(list'.nodes) < countOf(list.nodes) => EdgeRebuilt)
     /\ (EdgeRebuilt =>
           countOf(list'.nodes) = Cardinality(IncidentPairs(Range(order'))))]_vars

\* C31, its other parts: every resizeEdges returns true and leaves the live
\* edges, their getAllEdges order and nextId as they were, with deletes 0
ResizeEdgesKeepsEdges ==
  [][ResizeStep =>
       /\ last'.ret = "true"
       /\ getAllEdges(list') = getAllEdges(list)
       /\ Range(getAllEdges(list')) = Live
       /\ nextIdOf(list'.nodes) = nextIdOf(list.nodes)
       /\ deletesOf(list'.edges) = 0]_vars

(***************************************************************************)
(* The default list, also given addEdge calls in which from or to is not   *)
(* a minted id: the ids are 0 .. MaxUnmintedId, below and above the node   *)
(* capacity, in the first MaxUnmintedOps calls of a run.  A run ends with   *)
(* the first such call that does not throw.                                *)
(***************************************************************************)
AddEdgeUnminted ==
  /\ ops < MaxUnmintedOps
  /\ \E from \in 0..MaxUnmintedId, to \in 0..MaxUnmintedId, type \in Types :
       /\ from \notin Minted \/ to \notin Minted
       /\ LET r == addEdge(list, from, to, type)
          IN  /\ list' = Settled(r.g)
              /\ order' = IF r.ret = "true" THEN Append(order, <<from, to, type>>) ELSE order
              /\ adds' = IF r.ret = "true" THEN adds + 1 ELSE adds
              /\ last' = Call("addEdge", from, to, type, r.ret)
              /\ ops' = IF r.ret = "throw" THEN ops + 1 ELSE MaxOps
  /\ UNCHANGED <<ids, removes, shared, widths, graph>>

UnmintedNext == AddNode \/ AddEdge \/ RemoveEdge \/ ResizeEdges \/ AddEdgeUnminted

SpecUnminted == Init /\ [][UnmintedNext]_vars

\* the call of this step was an addEdge with an id that is not minted
UnmintedStep ==
  /\ last'.op = "addEdge"
  /\ last'.from \notin Minted \/ last'.to \notin Minted

\* C33: addEdge(from, to, type) with type > 0 and from or to not minted
\* raises the invalid-node-id error, and leaves the live edges and the
\* answers of the queries on the minted nodes as they were
UnmintedIdIsRejected ==
  [][UnmintedStep =>
       /\ last'.ret = "throw"
       /\ Range(getAllEdges(list')) = Range(getAllEdges(list))
       /\ SameAnswers(list, list')]_vars

\* C34: in every reachable state the capacity of the node map and the
\* capacity of the edge map are at least MIN_CAPACITY and at most the
\* MAX_CAPACITY of their map
CapacitiesWithinLimits ==
  /\ capacityOf(list.nodes) >= MIN_CAPACITY
  /\ capacityOf(list.nodes) <= NODE_MAX_CAPACITY
  /\ capacityOf(list.edges) >= MIN_CAPACITY
  /\ capacityOf(list.edges) <= EDGE_MAX_CAPACITY

(***************************************************************************)
(* getNextEdgeCapacity called on its own: with capacities from 0 on, those *)
(* around the peak capacity and around the overflow, and the loads 0.0,    *)
(* 0.1, ..., 1.0; and called in a row from the default capacity with a     *)
(* load above the load factor.  The call is recorded as                    *)
(* Call(op, capacity, load in tenths, value returned, ret).                *)
(***************************************************************************)
PolicyCapacities ==
  (0..MaxPolicyCapacity)
    \cup {GrowthSequence[i] + d : i \in 1..Len(GrowthSequence), d \in {-1, 0, 1}}
    \cup {MaxExactCapacity, PEAK_CAPACITY, PEAK_CAPACITY + 1,
          EDGE_MAX_CAPACITY \div 2, EDGE_MAX_CAPACITY \div 2 + 1,
          EDGE_MAX_CAPACITY, EDGE_MAX_CAPACITY + 1,
          MIN_GROW_FACTOR * EDGE_MAX_CAPACITY + 1, MIN_GROW_FACTOR * EDGE_MAX_CAPACITY + 2}

\* the load tenths / 10
TenthsLoad(tenths) == [n |-> tenths * BUCKET_SIZE, c |-> TENTHS]

GetNextEdgeCapacity ==
  /\ last.op \in {"new", "getNextEdgeCapacity"}
  /\ \E capacity \in PolicyCapacities, tenths \in 0..TENTHS :
       LET r == getNextEdgeCapacity(capacity, tenths, TenthsLoad(tenths))
       IN  last' = Call("getNextEdgeCapacity", capacity, tenths, r.v, r.ret)
  /\ UNCHANGED <<list, ids, order, adds, removes, ops, shared, widths, graph>>

GrowEdgeCapacity ==
  /\ last.op \in {"new", "grow"}
  /\ ops < Len(GrowthSequence) - 1
  /\ LET capacity == IF last.op = "grow" THEN last.type ELSE MIN_CAPACITY
         r == getNextEdgeCapacity(capacity, TENTHS, TenthsLoad(TENTHS))
     IN  last' = Call("grow", capacity, TENTHS, r.v, r.ret)
  /\ ops' = ops + 1
  /\ UNCHANGED <<list, ids, order, adds, removes, shared, widths, graph>>

PolicyNext == GetNextEdgeCapacity \/ GrowEdgeCapacity

SpecPolicy == Init /\ [][PolicyNext]_vars

\* round(capacity * (8 - 6 * min(1, capacity / 2^18))), for the capacities
\* up to MaxExactCapacity (6 * capacity^2 is below 2^31) and from the peak on
RoundedGrowth(capacity) ==
  IF capacity >= PEAK_CAPACITY THEN 2 * capacity
  ELSE 8 * capacity + ((PEAK_CAPACITY \div 2 - 6 * capacity * capacity) \div PEAK_CAPACITY)

\* the value before the clamp: grown above load 0.7, halved (rounding the
\* half up) below load 0.3, the capacity otherwise
Unclamped(capacity, tenths) ==
  IF tenths > LOAD_FACTOR_TENTHS THEN RoundedGrowth(capacity)
  ELSE IF tenths < UNLOAD_FACTOR_TENTHS THEN (capacity + 1) \div 2
  ELSE capacity

\* C35: getNextEdgeCapacity(capacity, count, load) returns
\* max(2, round(capacity * (8 - 6 * min(1, capacity / 2^18)))) when
\* load > 0.7, max(2, round(capacity * 0.5)) when load < 0.3 and
\* max(2, capacity) otherwise, and raises the capacity overflow instead when
\* the value before the max exceeds MAX_CAPACITY; growth from the default
\* capacity gives 2, 16, 128, 1024
NextEdgeCapacityIsAsStated ==
  /\ (last.op = "getNextEdgeCapacity" =>
        IF Unclamped(last.from, last.to) > EDGE_MAX_CAPACITY
        THEN last.ret = "throw"
        ELSE /\ last.ret = "ok"
             /\ last.type >= 2
             /\ last.type >= Unclamped(last.from, last.to)
             /\ last.type \in {2, Unclamped(last.from, last.to)})
  /\ (last.op = "grow" =>
        /\ last.ret = "ok"
        /\ last.from = GrowthSequence[ops]
        /\ last.type = GrowthSequence[ops + 1])

NextEdgeCapacityIsAsStatedWitness ==
  /\ last.op = "grow"
  /\ ops = Len(GrowthSequence) - 1
  /\ last.type = GrowthSequence[Len(GrowthSequence)]

\* a capacity below the minimum is raised to it
NextEdgeCapacityClampsWitness ==
  /\ last.op = "getNextEdgeCapacity"
  /\ last.ret = "ok"
  /\ Unclamped(last.from, last.to) < MIN_CAPACITY
  /\ last.type = MIN_CAPACITY

\* the overflow is raised, for a grown and for a kept capacity
NextEdgeCapacityOverflowWitness ==
  /\ last.op = "getNextEdgeCapacity"
  /\ last.ret = "throw"
  /\ last.to <= LOAD_FACTOR_TENTHS

(***************************************************************************)
(* EdgeTypeMap.hash and add on a new edge map of every capacity from 1 to  *)
(* MaxHashCapacity: edges.add(edges.hash(from, to, type), from, to, type)  *)
(* with from, to and type in 0 .. MaxHashKey.                              *)
(***************************************************************************)
HashInit ==
  /\ list \in {NewList(MIN_CAPACITY, capacity, Uint32) : capacity \in 1..MaxHashCapacity}
  /\ ids = <<>>
  /\ order = <<>>
  /\ adds = 0
  /\ removes = 0
  /\ last = Call("new", 0, 0, 0, "ok")
  /\ ops = 0
  /\ shared = NewShared
  /\ widths = NewWidths
  /\ graph = NewGraph

HashAdd ==
  /\ last.op = "new"
  /\ \E from \in 0..MaxHashKey, to \in 0..MaxHashKey, type \in 0..MaxHashKey :
       LET r == EdgeAdd(list.edges, hash(list.edges, from, to, type), from, to, type)
       IN  /\ list' = [list EXCEPT !.edges = r.a]
           /\ last' = Call("hash", from, to, type, r.ret)
  /\ ops' = ops + 1
  /\ UNCHANGED <<ids, order, adds, removes, shared, widths, graph>>

SpecHash == HashInit /\ [][HashAdd]_vars

\* mix(k) as a number: the word of hash32shift(k), which is below 2^31
MixOf(k) == hash32shiftTable[k][1] * Half + hash32shiftTable[k][2]

\* one step h * 37 + mix(k) of the sum, modulo c
HornerStep(h, k, c) == ((h * 37) + (MixOf(k) % c)) % c

\* ((17 * 37 + mix(from)) * 37 + mix(to)) * 37 + mix(type), the exact
\* number, modulo the capacity c
ExactHash(c, from, to, type) ==
  HornerStep(HornerStep(HornerStep(17 % c, from, c), to, c), type, c)

\* the bucket whose chain the call of this state linked its record to
LinkedBucket ==
  CHOOSE h \in 0..(capacityOf(list.edges) - 1) : head(list.edges, h) # 0

\* C36, without the reduction: for from, to and type from 0 on and every
\* capacity from 1 on, hash(from, to, type) is the exact number
\* ((17 * 37 + mix(from)) * 37 + mix(to)) * 37 + mix(type) modulo the
\* capacity, every mix being non-negative; it is in [0, capacity), and add
\* accepts it and links the record to that bucket
HashIsExactSumModCapacity ==
  last.op = "hash" =>
    /\ \A k \in {last.from, last.to, last.type} : hash32shiftTable[k][1] < Half \div 2
    /\ hash(list.edges, last.from, last.to, last.type)
         = ExactHash(capacityOf(list.edges), last.from, last.to, last.type)
    /\ hash(list.edges, last.from, last.to, last.type) \in 0..(capacityOf(list.edges) - 1)
    /\ last.ret = "ok"
    /\ LinkedBucket = hash(list.edges, last.from, last.to, last.type)

\* a capacity that is no power of two, and a sum above 2^32
HashIsExactSumModCapacityWitness ==
  /\ last.op = "hash"
  /\ capacityOf(list.edges) = MaxHashCapacity
  /\ MixOf(last.from) >= Half * (Half \div 4)
  /\ LinkedBucket # WrappedHash(capacityOf(list.edges), last.from, last.to, last.type)

\* C36 as stated: hash(from, to, type) is the sum reduced modulo 2^32 at
\* every step, modulo the capacity
HashIsWrappedSumModCapacity ==
  last.op = "hash" =>
    /\ hash(list.edges, last.from, last.to, last.type)
         = WrappedHash(capacityOf(list.edges), last.from, last.to, last.type)
    /\ hash(list.edges, last.from, last.to, last.type) \in 0..(capacityOf(list.edges) - 1)
    /\ last.ret = "ok"

\* a walk that was not given up: it came to null within the records the map has
Ended(a, l) == Len(l) <= BUCKET_SIZE * capacityOf(a)

\* every walk the operations make in g ends: the chain of every bucket of
\* both maps, and the in list and the out list of every node record
WalksEnd(g) ==
  /\ \A h \in 0..(capacityOf(g.nodes) - 1) : Ended(g.nodes, BucketChain(g.nodes, h))
  /\ \A h \in 0..(capacityOf(g.edges) - 1) : Ended(g.edges, BucketChain(g.edges, h))
  /\ \A node \in Slots(g.nodes, NODE_ITEM_SIZE) :
       /\ Ended(g.edges, InListOf(g, node))
       /\ Ended(g.edges, OutListOf(g, node))

\* C37: every operation called with minted ids and a type > 0 returns, in
\* every reachable state: no walk of a chain or a list comes back to a
\* record, and a rebuild returns although it re-adds the live edges by
\* addEdge on the copy, which may rebuild the copy in turn
OperationsTerminate ==
  /\ last.ret \in {"ok", "true", "false", "throw"}
  /\ WalksEnd(list)

\* a rebuild whose copy rebuilt itself: the capacity asked for was too small
\* for the live edges
OperationsTerminateWitness ==
  /\ last.op = "resizeEdges"
  /\ last.ret = "true"
  /\ countOf(list.edges) >= 2
  /\ last.from < countOf(list.edges)
  /\ capacityOf(list.edges) > last.from

\* C38: Graph.addEdge(from, to, type) throws "node not found" exactly when
\* from or to is no node of the graph (hasNode is false), whatever value
\* the nodes were added with; when both are nodes it returns what the
\* adjacency list's addEdge returns
GraphAddEdgeThrowsIffNoNode ==
  [][last'.op = "addEdge" =>
       IF hasNode(graph, last'.from) /\ hasNode(graph, last'.to)
       THEN /\ last'.ret # "throw"
            /\ last'.ret = addEdge(graph.adjacencyList, last'.from, last'.to, last'.type).ret
       ELSE last'.ret = "throw"]_vars

(***************************************************************************)
(* Graph.bfs(visit).  visit is given as the set stops of the ids for which *)
(* it returns true.  The result is ret ("found", "null" or "throw"), the   *)
(* node returned, the arguments visit was called with, in order (calls),   *)
(* and the nodes taken from the queue, in order (nodes).                   *)
(***************************************************************************)
\* for (let child of children) if (!visited.has(child)) { visited.add(child); queue.push(child) }
RECURSIVE bfsPush(_, _, _, _)
bfsPush(queue, visited, children, i) ==
  IF i > Len(children) THEN [queue |-> queue, visited |-> visited]
  ELSE IF children[i] \in visited THEN bfsPush(queue, visited, children, i + 1)
  ELSE bfsPush(Append(queue, children[i]), visited \cup {children[i]}, children, i + 1)

RECURSIVE bfsLoop(_, _, _, _, _, _)
\* the queue after the children of the node taken were pushed
bfsPushed(gr, rootNodeId, stops, pushed, calls, nodes) ==
  bfsLoop(gr, rootNodeId, stops, pushed, calls, nodes)

\* while (queue.length > 0): node = queue.shift(); stop = visit(rootNodeId)
bfsLoop(gr, rootNodeId, stops, pushed, calls, nodes) ==
  IF pushed.queue = <<>>
  THEN [ret |-> "null", node |-> rootNodeId, calls |-> calls, nodes |-> nodes]
  ELSE IF rootNodeId \in stops
  THEN [ret |-> "found", node |-> Head(pushed.queue),
        calls |-> Append(calls, rootNodeId), nodes |-> Append(nodes, Head(pushed.queue))]
  ELSE IF ~hasNode(gr, Head(pushed.queue))
  THEN [ret |-> "throw", node |-> Head(pushed.queue),
        calls |-> Append(calls, rootNodeId), nodes |-> Append(nodes, Head(pushed.queue))]
  ELSE bfsPushed(gr, rootNodeId, stops,
                 bfsPush(Tail(pushed.queue), pushed.visited,
                         getNodeIdsConnectedFrom(gr.adjacencyList, Head(pushed.queue),
                                                 Num(NullEdgeType)), 1),
                 Append(calls, rootNodeId), Append(nodes, Head(pushed.queue)))

bfsFrom(gr, rootNodeId, stops) ==
  bfsLoop(gr, rootNodeId, stops, [queue |-> <<rootNodeId>>, visited |-> {rootNodeId}],
          <<>>, <<>>)

bfs(gr, stops) ==
  IF gr.rootNodeId = {}
  THEN [ret |-> "throw", node |-> 0, calls |-> <<>>, nodes |-> <<>>]
  ELSE bfsFrom(gr, CHOOSE id \in gr.rootNodeId : TRUE, stops)

\* the nodes reachable from the nodes of seen by edges of NullEdgeType
RECURSIVE ReachableFrom(_, _)
ReachableFrom(gr, seen) ==
  IF {e[2] : e \in {x \in GraphEdges(gr) : x[1] \in seen /\ x[3] = NullEdgeType}} \subseteq seen
  THEN seen
  ELSE ReachableFrom(gr, seen \cup {e[2] : e \in {x \in GraphEdges(gr) :
                                                  x[1] \in seen /\ x[3] = NullEdgeType}})

\* what C39 says of the result r of bfs with the given stops
BfsIsAsStated(gr, stops, r) ==
  /\ r.ret \in {"found", "null"}
  /\ r.calls = r.nodes
  /\ \A i, j \in 1..Len(r.calls) : r.calls[i] = r.calls[j] => i = j
  /\ Range(r.calls) \subseteq ReachableFrom(gr, gr.rootNodeId)
  /\ \A i \in 1..(Len(r.calls) - 1) : r.calls[i] \notin stops
  /\ (r.ret = "null" =>
        /\ Range(r.calls) = ReachableFrom(gr, gr.rootNodeId)
        /\ Range(r.calls) \cap stops = {})
  /\ (r.ret = "found" =>
        /\ r.node = r.calls[Len(r.calls)]
        /\ r.node \in stops)

\* C39: Graph.bfs(visit) calls visit once for each node reachable from the
\* root through type-1 edges, in the order the nodes leave the queue and
\* with the node's id as argument, and returns the id of the first node for
\* which visit returned true, or null if there is none; it returns on a
\* graph with a cycle as well
BfsVisitsReachableNodes ==
  (graph.rootNodeId # {} /\ graph.rootNodeId \subseteq DOMAIN graph.nodes) =>
    \A stops \in SUBSET DOMAIN graph.nodes : BfsIsAsStated(graph, stops, bfs(graph, stops))

(***************************************************************************)
(* Graph.deserialize(g.serialize()) against g.                             *)
(***************************************************************************)
GraphRoundTrip(gr) == GraphDeserialize(GraphSerialize(gr)).g

\* removeEdge(from, to, type) has the same outcome, nodes and edges on gr and h
SameRemoveEdge(gr, h, from, to, type) ==
  /\ GraphRemoveEdge(gr, from, to, type).ret = GraphRemoveEdge(h, from, to, type).ret
  /\ GraphRemoveEdge(gr, from, to, type).g.nodes = GraphRemoveEdge(h, from, to, type).g.nodes
  /\ GraphEdges(GraphRemoveEdge(gr, from, to, type).g)
       = GraphEdges(GraphRemoveEdge(h, from, to, type).g)

SameRootBehaviour(gr, h) ==
  /\ h.rootNodeId = gr.rootNodeId
  /\ \A id \in 0..MaxGraphNodes : isOrphanedNode(h, id) = isOrphanedNode(gr, id)
  /\ \A e \in GraphEdges(gr) : SameRemoveEdge(gr, h, e[1], e[2], e[3])

\* C40: Graph.deserialize(g.serialize()) has the rootNodeId of g, a graph
\* without a root stays without one, and isOrphanedNode and removeEdge with
\* its orphan pruning give the same on both graphs
GraphRoundTripKeepsRoot == SameRootBehaviour(graph, GraphRoundTrip(graph))

====
